---- MODULE Spec2Model ----
(***************************************************************************)
(* DynamoDBSaver (langgraphjs-checkpoint-dynamodb): the checkpoint saver   *)
(* over two DynamoDB tables, "checkpoints" (partition key thread_id, sort  *)
(* key checkpoint_id) and "writes" (partition key                          *)
(* thread_id_checkpoint_id_checkpoint_ns, sort key task_id_idx).           *)
(*                                                                         *)
(* Strings are sequences of one-character strings, so that joining and     *)
(* splitting keys and the store's ordering of sort keys are computed, not  *)
(* assumed.  A JavaScript value that is not a string (undefined, a number) *)
(* is a one-element sequence whose element is not a character.             *)
(***************************************************************************)
EXTENDS Naturals, Integers, Sequences, FiniteSets, TLC

VARIABLES
    checkpoints,   \* the items of the checkpoints table
    writes,        \* the items of the writes table
    res,           \* the last call: its operation, arguments and outcome
    hist,          \* per (thread_id, checkpoint_id): what the last successful put was given
    pw,            \* the putWrites call in progress (it awaits each batch)
    pager,         \* a caller paging through list with before = last id seen
    nops,          \* calls that changed a table so far (bounds the model)
    inflight       \* put calls awaiting the store's answer to their docClient.put

vars == <<checkpoints, writes, res, hist, pw, pager, nops, inflight>>

----------------------------------------------------------------------------
(* Strings *)

\* The characters used, in code-unit order (digits < ':' < letters).
Alphabet == <<"0", "1", "2", "3", "4", "5", "6", "7", "8", "9", ":", "a", "b", "t">>

Chars == {Alphabet[i] : i \in 1..Len(Alphabet)}

Code(c) == CHOOSE i \in 1..Len(Alphabet) : Alphabet[i] = c

\* JavaScript's undefined, and a value of type number
undefined == <<"undefined">>
aNumber == <<"number">>

\* typeof v === 'string'
IsString(v) == \A i \in 1..Len(v) : v[i] \in Chars

RECURSIVE LexLessFrom(_, _, _)
LexLessFrom(a, b, i) ==
    IF i > Len(b) THEN FALSE
    ELSE IF i > Len(a) THEN TRUE
    ELSE IF a[i] = b[i] THEN LexLessFrom(a, b, i + 1)
    ELSE Code(a[i]) < Code(b[i])

\* a < b for strings, by code units (the order of DynamoDB string sort keys)
LexLess(a, b) == LexLessFrom(a, b, 1)

\* An element as join writes it: undefined is written as the empty string.
JoinText(v) == IF v = undefined THEN <<>> ELSE v

RECURSIVE Join(_, _)
\* Array.prototype.join
Join(parts, sep) ==
    IF Len(parts) = 0 THEN <<>>
    ELSE IF Len(parts) = 1 THEN JoinText(parts[1])
    ELSE JoinText(parts[1]) \o sep \o Join(Tail(parts), sep)

StartsAt(s, sep, i) ==
    /\ i + Len(sep) - 1 <= Len(s)
    /\ \A k \in 1..Len(sep) : s[i + k - 1] = sep[k]

RECURSIVE SplitFrom(_, _, _, _)
SplitFrom(s, sep, i, cur) ==
    IF i > Len(s) THEN <<cur>>
    ELSE IF StartsAt(s, sep, i) THEN <<cur>> \o SplitFrom(s, sep, i + Len(sep), <<>>)
    ELSE SplitFrom(s, sep, i + 1, Append(cur, s[i]))

\* String.prototype.split with a non-empty separator
Split(s, sep) == SplitFrom(s, sep, 1, <<>>)

IsDigit(c) == c \in Chars /\ Code(c) <= 10

RECURSIVE NumberToString(_)
\* String(n) for an integer n >= 0, as join does it
NumberToString(n) ==
    IF n < 10 THEN <<Alphabet[n + 1]>>
    ELSE NumberToString(n \div 10) \o <<Alphabet[(n % 10) + 1]>>

\* parseInt's NaN: no index is negative, and the alphabet has no sign
NaN == -1

RECURSIVE DigitsValue(_, _, _)
DigitsValue(s, i, acc) ==
    IF i > Len(s) \/ ~IsDigit(s[i]) THEN acc
    ELSE DigitsValue(s, i + 1, acc * 10 + (Code(s[i]) - 1))

\* parseInt(s, 10) on a string of the alphabet (no sign, no blanks): the leading
\* digits, NaN when there is none (also for undefined).
parseInt(s) ==
    IF s = undefined \/ Len(s) = 0 \/ ~IsDigit(s[1]) THEN NaN
    ELSE DigitsValue(s, 1, 0)

----------------------------------------------------------------------------
(* Write: the codec of the writes table's keys *)

separator == <<":", ":", ":">>

getPartitionKey(o) == Join(<<o.thread_id, o.checkpoint_id, o.checkpoint_ns>>, separator)

\* A Write is [thread_id, checkpoint_ns, checkpoint_id, task_id, idx, channel, type, value].
toDynamoDBItem(w) ==
    [thread_id_checkpoint_id_checkpoint_ns |-> getPartitionKey(w),
     task_id_idx |-> Join(<<w.task_id, NumberToString(w.idx)>>, separator),
     channel |-> w.channel,
     type |-> w.type,
     value |-> w.value]

\* Destructuring: the element at position i, undefined past the end.
At(parts, i) == IF i <= Len(parts) THEN parts[i] ELSE undefined

fromDynamoDBItem(item) ==
    LET pk == Split(item.thread_id_checkpoint_id_checkpoint_ns, separator)
        sk == Split(item.task_id_idx, separator)
    IN  [thread_id |-> At(pk, 1),
         checkpoint_ns |-> At(pk, 3),
         checkpoint_id |-> At(pk, 2),
         task_id |-> At(sk, 1),
         idx |-> parseInt(At(sk, 2)),
         channel |-> item.channel,
         type |-> item.type,
         value |-> item.value]

----------------------------------------------------------------------------
(* The serializer (serde): dumpsTyped / loadsTyped *)

\* A JavaScript value is [js, id, body]: js is "object" or "Uint8Array", id is
\* the value's id field (a checkpoint's id; undefined elsewhere).
\* dumpsTyped: a Uint8Array is kept under the tag "bytes", anything else is
\* encoded as the UTF-8 bytes of its JSON text under the tag "json".
dumpsTyped(obj) ==
    IF obj.js = "Uint8Array" THEN <<"bytes", obj>>
    ELSE <<"json", [utf8 |-> "json", text |-> obj]>>

\* loadsTyped: the inverse under the same tag; an unknown tag, or bytes that are
\* no JSON text under "json", is an error (the value "error").
loadsTyped(type, data) ==
    IF type = "json" /\ "utf8" \in DOMAIN data THEN data.text
    ELSE IF type = "bytes" /\ "js" \in DOMAIN data THEN data
    ELSE "error"

----------------------------------------------------------------------------
(* The store: DynamoDBDocument on the two tables *)

\* The key of a checkpoints item: partition key thread_id, sort key checkpoint_id.
CheckpointKey(item) == <<item.thread_id, item.checkpoint_id>>

\* The key of a writes item.
WriteKey(item) == <<item.thread_id_checkpoint_id_checkpoint_ns, item.task_id_idx>>

\* The store's ceiling on the size of an item, in bytes.
MaxItemSize == 409600

\* The size of a value's encoding: a value made of a long string carries its
\* length in `size`, any other value counts 1.
SizeOf(obj) == IF "size" \in DOMAIN obj THEN obj.size ELSE 1

ByteLength(data) == IF "utf8" \in DOMAIN data THEN SizeOf(data.text) ELSE SizeOf(data)

\* calculateItemSize of a checkpoints item: its strings and its two payloads
\* (attribute names and quoting are left out).
calculateItemSize(item) ==
    Len(item.thread_id) + Len(item.checkpoint_ns) + Len(item.checkpoint_id)
        + Len(JoinText(item.parent_checkpoint_id))
        + ByteLength(item.checkpoint) + ByteLength(item.metadata)

\* A store without the size ceiling.
sizeGuard_Off(item) == ""

\* sizeGuard: the error the store throws for an item, "" when it takes it.
sizeGuard(item) ==
    IF calculateItemSize(item) > MaxItemSize
    THEN "Item size has exceeded the maximum allowed size"
    ELSE ""

\* A put that replaces every item of the thread.
docPut_WholeThread(table, item) ==
    {i \in table : i.thread_id # item.thread_id} \cup {item}

\* A put on a table whose key holds checkpoint_ns too: it replaces the item of
\* its thread_id, checkpoint_id and checkpoint_ns only.
docPut_PerNamespace(table, item) ==
    {i \in table : \/ CheckpointKey(i) # CheckpointKey(item)
                   \/ i.checkpoint_ns # item.checkpoint_ns} \cup {item}

\* A put that adds the item and keeps the item of its key.
docPut_KeepsOld(table, item) == table \cup {item}

\* A put that keeps the metadata of the item it replaces.
docPut_Merge(table, item) ==
    {i \in table : CheckpointKey(i) # CheckpointKey(item)}
        \cup {IF \E i \in table : CheckpointKey(i) = CheckpointKey(item)
              THEN [item EXCEPT !.metadata =
                       (CHOOSE i \in table : CheckpointKey(i) = CheckpointKey(item)).metadata]
              ELSE item}

\* docClient.put on the checkpoints table: insert, or replace the item of that key.
docPut(table, item) ==
    {i \in table : CheckpointKey(i) # CheckpointKey(item)} \cup {item}

\* docClient.get on the checkpoints table: the item of that key, if any.
docGet(table, thread_id, checkpoint_id) ==
    LET found == {i \in table : CheckpointKey(i) = <<thread_id, checkpoint_id>>}
    IN  IF found = {} THEN <<>> ELSE <<CHOOSE i \in found : TRUE>>

\* seq with x inserted after its first p elements
InsertAt(seq, p, x) == SubSeq(seq, 1, p) \o <<x>> \o SubSeq(seq, p + 1, Len(seq))

\* The writes table is the sequence of its items in key order: the store keeps
\* the items of a partition by sort key (the order of partitions is not
\* observable, a query reads one partition).
WriteKeyLess(a, b) ==
    \/ LexLess(a.thread_id_checkpoint_id_checkpoint_ns, b.thread_id_checkpoint_id_checkpoint_ns)
    \/ /\ a.thread_id_checkpoint_id_checkpoint_ns = b.thread_id_checkpoint_id_checkpoint_ns
       /\ LexLess(a.task_id_idx, b.task_id_idx)

\* A PutRequest that adds its item beside the item of its key.
processPutRequest_Append(table, Item) ==
    InsertAt(table, Cardinality({k \in 1..Len(table) : WriteKeyLess(table[k], Item)}), Item)

\* A PutRequest that leaves the item of its key when there is one.
processPutRequest_IfAbsent(table, Item) ==
    LET same == {k \in 1..Len(table) : WriteKey(table[k]) = WriteKey(Item)}
        below == {k \in 1..Len(table) : WriteKeyLess(table[k], Item)}
    IN  IF same # {} THEN table
        ELSE InsertAt(table, Cardinality(below), Item)

\* A PutRequest that replaces the whole partition of its item.
processPutRequest_Partition(table, Item) ==
    LET others == SelectSeq(table, LAMBDA i :
                      i.thread_id_checkpoint_id_checkpoint_ns
                          # Item.thread_id_checkpoint_id_checkpoint_ns)
        below == {k \in 1..Len(others) : WriteKeyLess(others[k], Item)}
    IN  InsertAt(others, Cardinality(below), Item)

\* One PutRequest: the item replaces the item of its key, or is inserted.
processPutRequest(table, Item) ==
    LET same == {k \in 1..Len(table) : WriteKey(table[k]) = WriteKey(Item)}
        below == {k \in 1..Len(table) : WriteKeyLess(table[k], Item)}
    IN  IF same # {} THEN [table EXCEPT ![CHOOSE k \in same : TRUE] = Item]
        ELSE InsertAt(table, Cardinality(below), Item)

RECURSIVE processTableRequests(_, _)
\* docClient.batchWrite of PutRequests on the writes table, in request order.
processTableRequests(table, requests) ==
    IF Len(requests) = 0 THEN table
    ELSE processTableRequests(processPutRequest(table, requests[1]), Tail(requests))

RECURSIVE sortItems(_, _)
\* The items of one checkpoints partition in sort-key order, descending unless
\* ScanIndexForward.
sortItems(items, ScanIndexForward) ==
    IF items = {} THEN <<>>
    ELSE LET x == CHOOSE i \in items : TRUE
             rest == sortItems(items \ {x}, ScanIndexForward)
             ahead == {k \in 1..Len(rest) :
                          IF ScanIndexForward
                          THEN LexLess(rest[k].checkpoint_id, x.checkpoint_id)
                          ELSE LexLess(x.checkpoint_id, rest[k].checkpoint_id)}
         IN  InsertAt(rest, Cardinality(ahead), x)

\* A Limit that is not applied.
limitItems_Unlimited(items, Limit) == items

\* A result that stops after its first item whatever the Limit, as a page that
\* the store cut short would.
limitItems_Page(items, Limit) ==
    IF Len(items) = 0 THEN items ELSE SubSeq(items, 1, 1)

\* Limit: the first n items evaluated; Limit is <<>> (not given) or <<n>>.
limitItems(items, Limit) ==
    IF Len(Limit) = 0 \/ Limit[1] >= Len(items) THEN items
    ELSE SubSeq(items, 1, Limit[1])

\* The value of a top-level string attribute named by a path of an expression;
\* undefined when the item has no such attribute.
AttributeValue(item, path) ==
    IF path = <<"t", "h", "r", "e", "a", "d", "_", "i", "d">> THEN item.thread_id
    ELSE IF path = <<"c", "h", "e", "c", "k", "p", "o", "i", "n", "t", "_", "n", "s">>
         THEN item.checkpoint_ns
    ELSE IF path = <<"c", "h", "e", "c", "k", "p", "o", "i", "n", "t", "_", "i", "d">>
         THEN item.checkpoint_id
    ELSE undefined

\* FilterExpression `checkpoint_ns = ${checkpoint_ns}`: the right operand is the
\* text of the namespace, which the store reads as an attribute path.
filterExpression(item, checkpoint_ns) ==
    /\ AttributeValue(item, checkpoint_ns) # undefined
    /\ item.checkpoint_ns = AttributeValue(item, checkpoint_ns)

\* A query whose key condition is checkpoint_id <= :before_checkpoint_id.
docQuery_Inclusive(table, thread_id, before, ScanIndexForward, Limit, filterNs) ==
    LET matched == {i \in table :
                       /\ i.thread_id = thread_id
                       /\ before # undefined => ~LexLess(before, i.checkpoint_id)}
        evaluated == limitItems(sortItems(matched, ScanIndexForward), Limit)
    IN  IF filterNs = <<>> THEN evaluated
        ELSE SelectSeq(evaluated, LAMBDA i : filterExpression(i, filterNs))

\* docClient.query on the checkpoints table: the partition thread_id, the sort
\* key below `before` when given, in sort-key order; Limit bounds the items
\* evaluated, and the filter (filterNs, "" for none) applies to those.
docQuery(table, thread_id, before, ScanIndexForward, Limit, filterNs) ==
    LET matched == {i \in table :
                       /\ i.thread_id = thread_id
                       /\ before # undefined => LexLess(i.checkpoint_id, before)}
        evaluated == limitItems(sortItems(matched, ScanIndexForward), Limit)
    IN  IF filterNs = <<>> THEN evaluated
        ELSE SelectSeq(evaluated, LAMBDA i : filterExpression(i, filterNs))

\* docClient.query on the writes table: one partition, ascending sort keys.
docQueryWrites(table, partitionKey) ==
    SelectSeq(table, LAMBDA i : i.thread_id_checkpoint_id_checkpoint_ns = partitionKey)

----------------------------------------------------------------------------
(* DynamoDBSaver *)

\* A validation that looks at checkpoint_id before thread_id and checkpoint_ns.
validateConfigurable_IdFirst(configurable) ==
    LET failed(msg) == [error |-> msg, thread_id |-> undefined,
                        checkpoint_ns |-> undefined, checkpoint_id |-> undefined]
    IN  IF ~configurable.present THEN failed("Missing configurable")
        ELSE IF ~IsString(configurable.checkpoint_id)
                /\ configurable.checkpoint_id # undefined
             THEN failed("Invalid checkpoint_id")
        ELSE IF ~IsString(configurable.thread_id) THEN failed("Invalid thread_id")
        ELSE IF ~IsString(configurable.checkpoint_ns)
                /\ configurable.checkpoint_ns # undefined
             THEN failed("Invalid checkpoint_ns")
        ELSE [error |-> "",
              thread_id |-> configurable.thread_id,
              checkpoint_ns |-> IF configurable.checkpoint_ns = undefined
                                THEN <<>> ELSE configurable.checkpoint_ns,
              checkpoint_id |-> configurable.checkpoint_id]

\* A validation that returns the empty string for an absent checkpoint_id.
validateConfigurable_DefaultId(configurable) ==
    LET failed(msg) == [error |-> msg, thread_id |-> undefined,
                        checkpoint_ns |-> undefined, checkpoint_id |-> undefined]
    IN  IF ~configurable.present THEN failed("Missing configurable")
        ELSE IF ~IsString(configurable.thread_id) THEN failed("Invalid thread_id")
        ELSE IF ~IsString(configurable.checkpoint_ns)
                /\ configurable.checkpoint_ns # undefined
             THEN failed("Invalid checkpoint_ns")
        ELSE IF ~IsString(configurable.checkpoint_id)
                /\ configurable.checkpoint_id # undefined
             THEN failed("Invalid checkpoint_id")
        ELSE [error |-> "",
              thread_id |-> configurable.thread_id,
              checkpoint_ns |-> IF configurable.checkpoint_ns = undefined
                                THEN <<>> ELSE configurable.checkpoint_ns,
              checkpoint_id |-> IF configurable.checkpoint_id = undefined
                                THEN <<>> ELSE configurable.checkpoint_id]

\* A RunnableConfig is its configurable: [present, thread_id, checkpoint_ns,
\* checkpoint_id]; present = FALSE is a config without configurable, and a field
\* that is not given is undefined.
\* validateConfigurable: [error, thread_id, checkpoint_ns, checkpoint_id], error ""
\* when it returns.
validateConfigurable(configurable) ==
    LET failed(msg) == [error |-> msg, thread_id |-> undefined,
                        checkpoint_ns |-> undefined, checkpoint_id |-> undefined]
    IN  IF ~configurable.present THEN failed("Missing configurable")
        ELSE IF ~IsString(configurable.thread_id) THEN failed("Invalid thread_id")
        ELSE IF ~IsString(configurable.checkpoint_ns)
                /\ configurable.checkpoint_ns # undefined
             THEN failed("Invalid checkpoint_ns")
        ELSE IF ~IsString(configurable.checkpoint_id)
                /\ configurable.checkpoint_id # undefined
             THEN failed("Invalid checkpoint_id")
        ELSE [error |-> "",
              thread_id |-> configurable.thread_id,
              checkpoint_ns |-> IF configurable.checkpoint_ns = undefined
                                THEN <<>> ELSE configurable.checkpoint_ns,
              checkpoint_id |-> configurable.checkpoint_id]

\* A getItem whose query reads the partition oldest first.
getItem_Oldest(table, configurable) ==
    IF configurable.checkpoint_id # undefined
    THEN docGet(table, configurable.thread_id, configurable.checkpoint_id)
    ELSE LET Items == docQuery(table, configurable.thread_id, undefined, TRUE, <<1>>,
                               configurable.checkpoint_ns)
         IN  IF Len(Items) = 0 THEN <<>> ELSE <<Items[1]>>

\* A getItem whose point get gives up an item of another namespace than asked.
getItem_OfNamespace(table, configurable) ==
    IF configurable.checkpoint_id # undefined
    THEN SelectSeq(docGet(table, configurable.thread_id, configurable.checkpoint_id),
                   LAMBDA i : i.checkpoint_ns = configurable.checkpoint_ns)
    ELSE LET Items == docQuery(table, configurable.thread_id, undefined, FALSE, <<1>>,
                               configurable.checkpoint_ns)
         IN  IF Len(Items) = 0 THEN <<>> ELSE <<Items[1]>>

\* getItem of getTuple: the point get when checkpoint_id is given, otherwise the
\* query of the thread's partition, newest first, Limit 1, filtered by the
\* namespace when that is not empty; <<>> or <<item>>.
getItem(table, configurable) ==
    IF configurable.checkpoint_id # undefined
    THEN docGet(table, configurable.thread_id, configurable.checkpoint_id)
    ELSE LET Items == docQuery(table, configurable.thread_id, undefined, FALSE, <<1>>,
                               configurable.checkpoint_ns)
         IN  IF Len(Items) = 0 THEN <<>> ELSE <<Items[1]>>

\* The config of a tuple: the item's own thread_id, checkpoint_ns, checkpoint_id.
itemConfig(item) ==
    [thread_id |-> item.thread_id,
     checkpoint_ns |-> item.checkpoint_ns,
     checkpoint_id |-> item.checkpoint_id]

\* A parentConfig that is never given.
parentConfig_Never(item) == <<>>

\* parentConfig: present when item.parent_checkpoint_id is truthy (<<>> or <<config>>).
parentConfig(item) ==
    IF item.parent_checkpoint_id # undefined /\ item.parent_checkpoint_id # <<>>
    THEN <<[thread_id |-> item.thread_id,
            checkpoint_ns |-> item.checkpoint_ns,
            checkpoint_id |-> item.parent_checkpoint_id]>>
    ELSE <<>>

\* Pending writes read from every namespace of the found item's thread_id and
\* checkpoint_id.
pendingWritesOf_AnyNamespace(wtable, item) ==
    LET Items == SelectSeq(wtable, LAMBDA i :
                     /\ fromDynamoDBItem(i).thread_id = item.thread_id
                     /\ fromDynamoDBItem(i).checkpoint_id = item.checkpoint_id)
    IN  [k \in 1..Len(Items) |->
            LET write == fromDynamoDBItem(Items[k])
            IN  <<write.task_id, write.channel, loadsTyped(write.type, write.value)>>]

\* The pending writes of getTuple: the writes partition of the found item, each
\* decoded to <<task_id, channel, value>>, in the store's order.
pendingWritesOf(wtable, item) ==
    LET Items == docQueryWrites(wtable, getPartitionKey(item))
    IN  [k \in 1..Len(Items) |->
            LET write == fromDynamoDBItem(Items[k])
            IN  <<write.task_id, write.channel, loadsTyped(write.type, write.value)>>]

\* getTuple: [error, tuple, requests]; tuple is <<>> (undefined) or
\* <<CheckpointTuple>>, requests the store requests issued, in order.
getTuple(table, wtable, config) ==
    LET configurable == validateConfigurable(config)
    IN  IF configurable.error # ""
        THEN [error |-> configurable.error, tuple |-> <<>>, requests |-> <<>>]
        ELSE LET found == getItem(table, configurable)
                 first == IF configurable.checkpoint_id # undefined THEN "get" ELSE "query"
             IN  IF Len(found) = 0
                 THEN [error |-> "", tuple |-> <<>>, requests |-> <<first>>]
                 ELSE LET item == found[1]
                      IN  [error |-> "",
                           requests |-> <<first, "query">>,
                           tuple |-> <<[config |-> itemConfig(item),
                                        checkpoint |-> loadsTyped(item.type, item.checkpoint),
                                        metadata |-> loadsTyped(item.type, item.metadata),
                                        parentConfig |-> parentConfig(item),
                                        pendingWrites |-> pendingWritesOf(wtable, item)]>>]

\* A list that keeps the items of the namespace of its address.
list_OfNamespace(table, config, options) ==
    LET thread_id == IF config.present THEN config.thread_id ELSE undefined
        before == IF options.before # undefined /\ options.before # <<>>
                  THEN options.before ELSE undefined
        Queried == docQuery(table, thread_id, before, FALSE, options.limit, <<>>)
        Items == IF config.present /\ config.checkpoint_ns # undefined
                 THEN SelectSeq(Queried, LAMBDA i : i.checkpoint_ns = config.checkpoint_ns)
                 ELSE Queried
    IN  [k \in 1..Len(Items) |->
            [config |-> itemConfig(Items[k]),
             checkpoint |-> loadsTyped(Items[k].type, Items[k].checkpoint),
             metadata |-> loadsTyped(Items[k].type, Items[k].metadata),
             parentConfig |-> parentConfig(Items[k])]]

\* A list that fetches the pending writes of every item, as getTuple does.
list_Pending(table, config, options) ==
    LET thread_id == IF config.present THEN config.thread_id ELSE undefined
        before == IF options.before # undefined /\ options.before # <<>>
                  THEN options.before ELSE undefined
        Items == docQuery(table, thread_id, before, FALSE, options.limit, <<>>)
    IN  [k \in 1..Len(Items) |->
            [config |-> itemConfig(Items[k]),
             checkpoint |-> loadsTyped(Items[k].type, Items[k].checkpoint),
             metadata |-> loadsTyped(Items[k].type, Items[k].metadata),
             parentConfig |-> parentConfig(Items[k]),
             pendingWrites |-> docQueryWrites(writes, getPartitionKey(Items[k]))]]

\* A list that asks the store for ascending order.
list_Forward(table, config, options) ==
    LET thread_id == IF config.present THEN config.thread_id ELSE undefined
        before == IF options.before # undefined /\ options.before # <<>>
                  THEN options.before ELSE undefined
        Items == docQuery(table, thread_id, before, TRUE, options.limit, <<>>)
    IN  [k \in 1..Len(Items) |->
            [config |-> itemConfig(Items[k]),
             checkpoint |-> loadsTyped(Items[k].type, Items[k].checkpoint),
             metadata |-> loadsTyped(Items[k].type, Items[k].metadata),
             parentConfig |-> parentConfig(Items[k])]]

\* list: the tuples it yields, in order.  options is [limit, before]: limit is
\* <<>> or <<n>>, before is the checkpoint_id of options.before (undefined when
\* not given).  thread_id is read from the config without validation.
list(table, config, options) ==
    LET thread_id == IF config.present THEN config.thread_id ELSE undefined
        before == IF options.before # undefined /\ options.before # <<>>
                  THEN options.before ELSE undefined
        Items == docQuery(table, thread_id, before, FALSE, options.limit, <<>>)
    IN  [k \in 1..Len(Items) |->
            [config |-> itemConfig(Items[k]),
             checkpoint |-> loadsTyped(Items[k].type, Items[k].checkpoint),
             metadata |-> loadsTyped(Items[k].type, Items[k].metadata),
             parentConfig |-> parentConfig(Items[k])]]

\* A CheckpointItem whose metadata attribute holds the checkpoint's bytes.
putItem_MetadataLost(config, checkpoint, metadata) ==
    [thread_id |-> validateConfigurable(config).thread_id,
     checkpoint_ns |-> IF config.checkpoint_ns = undefined THEN <<>> ELSE config.checkpoint_ns,
     checkpoint_id |-> checkpoint.id,
     parent_checkpoint_id |-> config.checkpoint_id,
     type |-> dumpsTyped(checkpoint)[1],
     checkpoint |-> dumpsTyped(checkpoint)[2],
     metadata |-> dumpsTyped(checkpoint)[2]]

\* The CheckpointItem put builds.
putItem(config, checkpoint, metadata) ==
    [thread_id |-> validateConfigurable(config).thread_id,
     checkpoint_ns |-> IF config.checkpoint_ns = undefined THEN <<>> ELSE config.checkpoint_ns,
     checkpoint_id |-> checkpoint.id,
     parent_checkpoint_id |-> config.checkpoint_id,
     type |-> dumpsTyped(checkpoint)[1],
     checkpoint |-> dumpsTyped(checkpoint)[2],
     metadata |-> dumpsTyped(metadata)[2]]

\* A put that does not compare the two type tags.
putError_NoTypeCheck(config, checkpoint, metadata) ==
    validateConfigurable(config).error

\* The error put throws before it writes, "" when it writes.
putError(config, checkpoint, metadata) ==
    IF validateConfigurable(config).error # "" THEN validateConfigurable(config).error
    ELSE IF dumpsTyped(checkpoint)[1] # dumpsTyped(metadata)[1]
    THEN "Failed to serialize checkpoint and metadata to the same type."
    ELSE ""

\* What put returns: the new item's thread_id, checkpoint_ns and checkpoint_id.
putReturn(item) ==
    [thread_id |-> item.thread_id,
     checkpoint_ns |-> item.checkpoint_ns,
     checkpoint_id |-> item.checkpoint_id]

\* The batch size of putWrites.
BatchSize == 25

\* Items that all carry idx 0.
writeItems_IdxZero(configurable, pendingWrites, taskId) ==
    [k \in 1..Len(pendingWrites) |->
        toDynamoDBItem([thread_id |-> configurable.thread_id,
                        checkpoint_ns |-> configurable.checkpoint_ns,
                        checkpoint_id |-> configurable.checkpoint_id,
                        task_id |-> taskId,
                        idx |-> 0,
                        channel |-> pendingWrites[k][1],
                        type |-> dumpsTyped(pendingWrites[k][2])[1],
                        value |-> dumpsTyped(pendingWrites[k][2])[2]])]

\* writeItems of putWrites: one item per write, idx its position from 0.
\* A write is <<channel, value>>.
writeItems(configurable, pendingWrites, taskId) ==
    [k \in 1..Len(pendingWrites) |->
        toDynamoDBItem([thread_id |-> configurable.thread_id,
                        checkpoint_ns |-> configurable.checkpoint_ns,
                        checkpoint_id |-> configurable.checkpoint_id,
                        task_id |-> taskId,
                        idx |-> k - 1,
                        channel |-> pendingWrites[k][1],
                        type |-> dumpsTyped(pendingWrites[k][2])[1],
                        value |-> dumpsTyped(pendingWrites[k][2])[2]])]

RECURSIVE batchesFrom_Wide(_, _)
\* Batches of 26 items.
batchesFrom_Wide(items, i) ==
    IF i > Len(items) THEN <<>>
    ELSE <<SubSeq(items, i, IF i + BatchSize <= Len(items)
                            THEN i + BatchSize ELSE Len(items))>>
         \o batchesFrom_Wide(items, i + BatchSize + 1)

RECURSIVE batchesFrom(_, _)
\* for (i = 0; i < writeItems.length; i += 25) batches.push(slice(i, i + 25)),
\* i counted from 1 here.
batchesFrom(items, i) ==
    IF i > Len(items) THEN <<>>
    ELSE <<SubSeq(items, i, IF i + BatchSize - 1 <= Len(items)
                            THEN i + BatchSize - 1 ELSE Len(items))>>
         \o batchesFrom(items, i + BatchSize)

\* The batches in the opposite order, the last slice first.
batchesOf_LastFirst(items) ==
    LET b == batchesFrom(items, 1)
    IN  [k \in 1..Len(b) |-> b[Len(b) + 1 - k]]

batchesOf(items) == batchesFrom(items, 1)

\* A putWrites that does not ask for the checkpoint_id.
putWritesError_NoIdCheck(config) == validateConfigurable(config).error

\* The error putWrites throws before it writes, "" when it goes on.
putWritesError(config) ==
    IF validateConfigurable(config).error # "" THEN validateConfigurable(config).error
    ELSE IF validateConfigurable(config).checkpoint_id = undefined
    THEN "Missing checkpoint_id"
    ELSE ""

----------------------------------------------------------------------------
(* Inputs and bounds *)

MaxPuts == 2          \* puts per run
MaxLimit == 2         \* the largest limit passed to list
MaxPagePuts == 3      \* puts per run of the paging specification
MaxPutWrites == 2     \* putWrites calls per run

T1 == <<"1">>
T2 == <<"2">>
Threads == {T1, T2}
NsA == <<"a">>
CheckpointIds == {<<"1">>, <<"1", "0">>, <<"2">>}

Config(t, ns, id) ==
    [present |-> TRUE, thread_id |-> t, checkpoint_ns |-> ns, checkpoint_id |-> id]

Object(id, body) == [js |-> "object", id |-> id, body |-> body]

\* put: thread "1" with and without a namespace and a parent (the empty string
\* is a string too), thread "2" once; two payloads per checkpoint id.
PutConfigs ==
    {Config(T1, ns, id) : ns \in {undefined, NsA}, id \in {undefined, <<"1">>}}
        \cup {Config(T1, undefined, <<>>), Config(T2, undefined, undefined)}

Payloads ==
    {<<Object(id, "v1"), Object(undefined, "m1")>> : id \in CheckpointIds}
        \cup {<<Object(id, "v2"), Object(undefined, "m2")>> : id \in CheckpointIds}

PutInputs ==
    {<<config, p[1], p[2]>> : config \in PutConfigs \ {Config(T2, undefined, undefined)},
                              p \in Payloads}
        \cup {<<Config(T2, undefined, undefined), Object(<<"1">>, "v1"),
                Object(undefined, "m1")>>}

\* getTuple: every address put can return, and the bare thread.
GetConfigs ==
    {Config(T1, ns, id) : ns \in {<<>>, NsA}, id \in {undefined} \cup CheckpointIds}
        \cup {Config(T1, undefined, undefined), Config(T2, undefined, undefined)}

Limits == {<<>>} \cup {<<k>> : k \in 1..MaxLimit}

ListInputs ==
    {<<Config(T1, undefined, undefined), [limit |-> l, before |-> b]>> :
        l \in Limits, b \in {undefined, <<"2">>}}
        \cup {<<Config(T2, undefined, undefined), [limit |-> <<>>, before |-> undefined]>>,
              <<Config(T1, NsA, undefined), [limit |-> <<>>, before |-> undefined]>>}

----------------------------------------------------------------------------
(* State *)

NoCall == [op |-> "none"]
NoPutWrites == [status |-> "idle"]
NoPager == [status |-> "idle"]

Init ==
    /\ checkpoints = {}
    /\ writes = <<>>
    /\ res = NoCall
    /\ hist = {}
    /\ pw = NoPutWrites
    /\ pager = NoPager
    /\ nops = [puts |-> 0, putWrites |-> 0]
    /\ inflight = {}

\* What the caller of a successful put gave and got, kept per (thread_id,
\* checkpoint.id): the observation the claims compare later reads with.
\* `replaced` holds the entry's predecessors' payloads (the puts it overwrote),
\* `namespaces` the checkpoint_ns of every put to the key so far.
Remember(h, config, checkpoint, metadata, out) ==
    LET key == <<config.thread_id, checkpoint.id>>
        old == {e \in h : e.key = key}
    IN  (h \ old)
            \cup {[key |-> key, config |-> config,
                   checkpoint |-> checkpoint, metadata |-> metadata, out |-> out,
                   replaced |-> UNION {e.replaced \cup {e.checkpoint} : e \in old},
                   namespaces |-> UNION {e.namespaces : e \in old} \cup {out.checkpoint_ns}]}

\* A put to the paged thread, once paging has begun, marks the paging as raced.
Raced(config) ==
    IF pager.status # "idle" /\ pager.thread_id = config.thread_id
    THEN [pager EXCEPT !.raced = TRUE] ELSE pager

\* put(config, checkpoint, metadata)
put(config, checkpoint, metadata) ==
    LET error == putError(config, checkpoint, metadata)
        item == putItem(config, checkpoint, metadata)
    IN  IF error # ""
        THEN /\ res' = [op |-> "put", config |-> config, error |-> error,
                        checkpoint |-> checkpoint, metadata |-> metadata,
                        requests |-> <<>>]
             /\ UNCHANGED <<checkpoints, writes, hist, pw, pager, nops, inflight>>
        ELSE IF sizeGuard(item) # ""
        THEN /\ res' = [op |-> "put", config |-> config, error |-> sizeGuard(item),
                        checkpoint |-> checkpoint, metadata |-> metadata,
                        requests |-> <<"put">>]
             /\ UNCHANGED <<checkpoints, writes, hist, pw, pager, nops, inflight>>
        ELSE /\ checkpoints' = docPut(checkpoints, item)
             /\ res' = [op |-> "put", config |-> config, error |-> "",
                        checkpoint |-> checkpoint, metadata |-> metadata,
                        out |-> putReturn(item), requests |-> <<"put">>]
             /\ hist' = Remember(hist, config, checkpoint, metadata, putReturn(item))
             /\ pager' = Raced(config)
             /\ nops' = [nops EXCEPT !.puts = @ + 1]
             /\ UNCHANGED <<writes, pw, inflight>>

\* getTuple(config)
get(config) ==
    /\ LET got == getTuple(checkpoints, writes, config)
       IN  res' = [op |-> "getTuple", config |-> config,
                   error |-> got.error, out |-> got.tuple, requests |-> got.requests]
    /\ UNCHANGED <<checkpoints, writes, hist, pw, pager, nops, inflight>>

\* The answers of the store to the query of list: the items; for a thread_id
\* that is no string the store may reject the key value instead.
StoreAnswers == {"", "StoreError"}

listAnswers(config) ==
    IF config.present /\ IsString(config.thread_id) THEN {""} ELSE StoreAnswers

\* list(config, options), read to its end
listAll(config, options) ==
    /\ \E answer \in listAnswers(config) :
           res' = [op |-> "list", config |-> config, options |-> options,
                   error |-> answer,
                   out |-> IF answer = "" THEN list(checkpoints, config, options) ELSE <<>>,
                   requests |-> <<"query">>]
    /\ UNCHANGED <<checkpoints, writes, hist, pw, pager, nops, inflight>>

DoPut ==
    /\ nops.puts < MaxPuts
    /\ \E in \in PutInputs : put(in[1], in[2], in[3])

DoGet == \E config \in GetConfigs : get(config)

DoList == \E in \in ListInputs : listAll(in[1], in[2])

Next == DoPut \/ DoGet \/ DoList

Spec == Init /\ [][Next]_vars

----------------------------------------------------------------------------
(* Paging: a caller reads list page by page, before = the last id it saw *)

PagePutInputs ==
    {<<Config(T1, undefined, undefined), Object(id, "v1"), Object(undefined, "m1")>> :
        id \in CheckpointIds}
        \cup {<<Config(T1, NsA, <<"2">>), Object(<<"1", "0">>, "v2"), Object(undefined, "m2")>>,
              <<Config(T2, undefined, undefined), Object(<<"1">>, "v1"), Object(undefined, "m1")>>}

IdsOf(tuples) == [k \in 1..Len(tuples) |-> tuples[k].config.checkpoint_id]

\* One list call of the paging caller, and what the caller keeps of it: the
\* pages, the before bound each was asked with, and the ids the thread had
\* when this call was made.
Paged(config, limit, before, pages, befores) ==
    LET page == list(checkpoints, config, [limit |-> limit, before |-> before])
    IN  [status |-> IF Len(page) = 0 THEN "done" ELSE "paging",
         thread_id |-> config.thread_id,
         limit |-> limit,
         before |-> IF Len(page) = 0 THEN before
                    ELSE page[Len(page)].config.checkpoint_id,
         pages |-> Append(pages, IdsOf(page)),
         befores |-> Append(befores, before),
         atStart |-> {i.checkpoint_id : i \in {j \in checkpoints :
                                                  j.thread_id = config.thread_id}},
         raced |-> FALSE]

\* The first page: list(config, {limit})
pageFirst(config, limit) ==
    /\ pager.status \in {"idle", "done"}
    /\ pager' = Paged(config, limit, undefined, <<>>, <<>>)
    /\ res' = [op |-> "list", config |-> config,
               options |-> [limit |-> limit, before |-> undefined],
               error |-> "",
               out |-> list(checkpoints, config, [limit |-> limit, before |-> undefined])]
    /\ UNCHANGED <<checkpoints, writes, hist, pw, nops, inflight>>

\* The next page: list(config, {limit, before: the last config yielded})
pageNext ==
    /\ pager.status = "paging"
    /\ LET config == Config(pager.thread_id, undefined, undefined)
           options == [limit |-> pager.limit, before |-> pager.before]
       IN  /\ pager' = [Paged(config, pager.limit, pager.before, pager.pages,
                                  pager.befores)
                           EXCEPT !.raced = pager.raced, !.atStart = pager.atStart]
           /\ res' = [op |-> "list", config |-> config, options |-> options,
                      error |-> "", out |-> list(checkpoints, config, options)]
    /\ UNCHANGED <<checkpoints, writes, hist, pw, nops, inflight>>

PageDoPut ==
    /\ nops.puts < MaxPagePuts
    /\ \E in \in PagePutInputs : put(in[1], in[2], in[3])

PageDoFirst ==
    \E t \in Threads, limit \in Limits : pageFirst(Config(t, undefined, undefined), limit)

PageDoNext == pageNext

PageDoList == \E in \in ListInputs : listAll(in[1], in[2])

NextPage == PageDoPut \/ PageDoFirst \/ PageDoNext \/ PageDoList

SpecPage == Init /\ [][NextPage]_vars

----------------------------------------------------------------------------
(* putWrites: the call awaits each batchWrite, so other calls interleave *)

\* The writes of a call: n writes on channel "bar", the k-th with the value
\* <<v, k>> (v tells one call's writes from another's).
PendingWrites(n, v) == [k \in 1..n |-> <<"bar", Object(undefined, <<v, k>>)>>]

WriteCounts == {0, 1, BatchSize, BatchSize + 1, 2 * BatchSize + 1}

TaskT == <<"t">>
TaskB == <<"b">>

\* <<config, number of writes, value tag, taskId>>
PutWritesInputs ==
    {<<Config(T1, undefined, <<"1">>), n, "x", TaskT>> : n \in WriteCounts}
        \cup {<<Config(T1, undefined, <<"1">>), 1, "y", TaskT>>,
              <<Config(T1, undefined, <<"1">>), BatchSize + 1, "y", TaskT>>,
              <<Config(T1, NsA, <<"1">>), 1, "x", TaskT>>,
              <<Config(T1, undefined, <<"1">>), 1, "x", TaskB>>,
              <<Config(T1, undefined, undefined), 1, "x", TaskT>>}

WritesPutInputs ==
    {<<Config(T1, ns, undefined), Object(<<"1">>, "v1"), Object(undefined, "m1")>> :
        ns \in {undefined, NsA}}

WritesGetConfigs == {Config(T1, undefined, undefined), Config(T1, NsA, <<"1">>)}

\* The call record: what was asked, the batches built, those issued so far (the
\* last one in flight while running), how many completed, which one the store
\* rejected (0 for none), the table before.
Call(config, pendingWrites, taskId, status, error, batches, issued) ==
    [status |-> status, error |-> error, config |-> config,
     pendingWrites |-> pendingWrites, taskId |-> taskId,
     batches |-> batches, issued |-> issued, completed |-> 0, failed |-> 0,
     base |-> writes]

\* putWrites(config, writes, taskId) up to its first await: validation, the
\* items, the batches, and the first batchWrite issued.
putWritesStart(config, pendingWrites, taskId) ==
    LET error == putWritesError(config)
        batches == batchesOf(writeItems(validateConfigurable(config), pendingWrites, taskId))
    IN  /\ pw.status # "running"
        /\ nops' = [nops EXCEPT !.putWrites = @ + 1]
        /\ IF error # ""
           THEN /\ pw' = Call(config, pendingWrites, taskId, "error", error, <<>>, <<>>)
                /\ res' = [op |-> "putWrites", config |-> config, error |-> error]
           ELSE IF Len(batches) = 0
           THEN /\ pw' = Call(config, pendingWrites, taskId, "done", "", batches, <<>>)
                /\ res' = [op |-> "putWrites", config |-> config, error |-> ""]
           ELSE /\ pw' = Call(config, pendingWrites, taskId, "running", "", batches,
                              <<batches[1]>>)
                /\ res' = [op |-> "putWrites", config |-> config, error |-> "pending"]
        /\ UNCHANGED <<checkpoints, writes, hist, pager, inflight>>

\* The call after its batchWrite in flight resolved: the next batch is issued, or
\* the call returns.
onBatchResolved(call) ==
    IF call.completed + 1 < Len(call.batches)
    THEN [call EXCEPT !.completed = @ + 1,
                      !.issued = Append(@, call.batches[call.completed + 2])]
    ELSE [call EXCEPT !.completed = @ + 1, !.status = "done"]

\* A rejection that is caught: the loop goes on as after a success.
onBatchRejected_Caught(call) == onBatchResolved(call)

\* The call after its batchWrite in flight rejected: the error is thrown on.
onBatchRejected(call) ==
    [call EXCEPT !.status = "error", !.error = "StoreError"]

\* The store applies the batch in flight and the await resumes the loop.
putWritesBatch ==
    /\ pw.status = "running"
    /\ writes' = processTableRequests(writes, pw.issued[Len(pw.issued)])
    /\ pw' = onBatchResolved(pw)
    /\ res' = [op |-> "putWrites", config |-> pw.config,
               error |-> IF onBatchResolved(pw).status = "done" THEN "" ELSE "pending"]
    /\ UNCHANGED <<checkpoints, hist, pager, nops, inflight>>

\* The store rejects the batch in flight (it stores none of it): the await throws.
putWritesFail ==
    /\ pw.status = "running"
    /\ pw' = [onBatchRejected(pw) EXCEPT !.failed = Len(pw.issued)]
    /\ res' = [op |-> "putWrites", config |-> pw.config,
               error |-> IF onBatchRejected(pw).status = "error"
                         THEN onBatchRejected(pw).error ELSE "pending"]
    /\ UNCHANGED <<checkpoints, writes, hist, pager, nops, inflight>>

WritesDoPut ==
    /\ nops.puts < MaxPuts
    /\ \E in \in WritesPutInputs : put(in[1], in[2], in[3])

WritesDoStart ==
    /\ nops.putWrites < MaxPutWrites
    /\ \E in \in PutWritesInputs : putWritesStart(in[1], PendingWrites(in[2], in[3]), in[4])

WritesDoGet == \E config \in WritesGetConfigs : get(config)

NextWrites == WritesDoPut \/ WritesDoStart \/ putWritesBatch \/ putWritesFail \/ WritesDoGet

SpecWrites == Init /\ [][NextWrites]_vars

----------------------------------------------------------------------------
(* Calls that fail: invalid addresses, oversized items, mismatched type tags *)

\* A config without configurable
NoConfigurable ==
    [present |-> FALSE, thread_id |-> undefined, checkpoint_ns |-> undefined,
     checkpoint_id |-> undefined]

\* Addresses validateConfigurable rejects, some for more than one reason.
InvalidConfigs ==
    {NoConfigurable,
     Config(undefined, undefined, <<"1">>),
     Config(aNumber, undefined, undefined),
     Config(T1, aNumber, undefined),
     Config(T1, undefined, aNumber),
     Config(T1, aNumber, aNumber),
     Config(aNumber, aNumber, aNumber)}

ValidConfigs ==
    {Config(T1, undefined, undefined), Config(T1, NsA, <<"1">>), Config(T1, <<>>, <<>>)}

\* An address whose thread_id is the empty string
EmptyThread == Config(<<>>, undefined, <<"1">>)

ErrConfigs == InvalidConfigs \cup ValidConfigs \cup {EmptyThread}

\* A value made of a string of n characters
Large(id, n) == [js |-> "object", id |-> id, body |-> "x", size |-> n]

\* A Uint8Array, which dumpsTyped keeps under another tag than an object
Bytes(id) == [js |-> "Uint8Array", id |-> id, body |-> "b"]

\* <<checkpoint, metadata>>: a small pair, 500 KB of data, an item of exactly the
\* ceiling for thread "1" without namespace and parent, one byte more, and a
\* pair the serializer tags differently.
ErrPayloads ==
    {<<Object(<<"1">>, "v1"), Object(undefined, "m1")>>,
     <<Large(<<"1">>, 500 * 1024), Object(undefined, "m1")>>,
     <<Large(<<"2">>, MaxItemSize - 3), Object(undefined, "m1")>>,
     <<Large(<<"2">>, MaxItemSize - 2), Object(undefined, "m1")>>,
     <<Object(<<"1">>, "v2"), Bytes(undefined)>>,
     <<Bytes(<<"2">>), Object(undefined, "m2")>>}

\* put: every payload at the valid addresses, the small one at the invalid
\* ones, and the mismatched pair at an invalid one.
ErrPutInputs ==
    {<<config, p[1], p[2]>> : config \in ValidConfigs, p \in ErrPayloads}
        \cup {<<config, Object(<<"1">>, "v1"), Object(undefined, "m1")>> :
                  config \in InvalidConfigs}
        \cup {<<NoConfigurable, Object(<<"1">>, "v2"), Bytes(undefined)>>,
              <<EmptyThread, Object(<<"2">>, "v1"), Object(undefined, "m1")>>}

\* putWrites: <<config, number of writes, taskId>>
ErrPutWritesInputs ==
    {<<config, 1, TaskT>> : config \in InvalidConfigs}
        \cup {<<Config(T1, undefined, undefined), n, taskId>> :
                  n \in {0, 2}, taskId \in {TaskT, TaskB}}
        \cup {<<Config(T1, NsA, <<"1">>), 1, TaskT>>, <<Config(T1, NsA, <<"1">>), 2, TaskT>>,
              <<EmptyThread, 1, TaskT>>}

MaxErrPuts == 1        \* successful puts per run of the failing-calls specification
MaxErrPutWrites == 2   \* putWrites calls per run of the failing-calls specification

\* A failing put may come at any time, a successful one MaxErrPuts times.
ErrDoPut ==
    \E in \in ErrPutInputs :
        /\ \/ nops.puts < MaxErrPuts
           \/ putError(in[1], in[2], in[3]) # ""
           \/ sizeGuard(putItem(in[1], in[2], in[3])) # ""
        /\ put(in[1], in[2], in[3])

ErrDoGet == \E config \in ErrConfigs : get(config)

\* list(config) without options
NoOptions == [limit |-> <<>>, before |-> undefined]

ErrDoList == \E config \in ErrConfigs : listAll(config, NoOptions)

ErrDoStart ==
    /\ nops.putWrites < MaxErrPutWrites
    /\ \E in \in ErrPutWritesInputs :
           putWritesStart(in[1], PendingWrites(in[2], "x"), in[3])

ErrDoBatch == putWritesBatch

NextErrors == ErrDoPut \/ ErrDoGet \/ ErrDoList \/ ErrDoStart \/ ErrDoBatch

SpecErrors == Init /\ [][NextErrors]_vars

----------------------------------------------------------------------------
(* Pending writes of several checkpoints, namespaces and threads *)

TA == <<"a">>
TAc == <<"a", ":">>
IB == <<"b">>
IcB == <<":", "b">>

\* <<thread_id, checkpoint_ns, checkpoint_id>>: a checkpoint, the same in
\* another namespace, another checkpoint of the thread, the checkpoint of
\* another thread, and two whose ids hold a colon.
PendAddresses ==
    {<<T1, undefined, <<"1">>>>, <<T1, NsA, <<"1">>>>, <<T1, undefined, <<"2">>>>,
     <<T2, undefined, <<"1">>>>, <<TAc, undefined, IB>>, <<TA, undefined, IcB>>}

\* The address as the checkpoints item spells it (checkpoint_ns ?? '').
Triple(a) == <<a[1], JoinText(a[2]), a[3]>>

\* n writes whose values name the address they are written for.
TaggedWrites(n, a) == [k \in 1..n |-> <<"bar", Object(undefined, <<Triple(a), k>>)>>]

\* put: each address once, and the first one with a second payload.
PendPutInputs ==
    {<<Config(a[1], a[2], undefined), Object(a[3], "v1"), Object(undefined, "m1")>> :
        a \in PendAddresses}
        \cup {<<Config(T1, undefined, undefined), Object(<<"1">>, "v2"),
                Object(undefined, "m2")>>}

\* <<address, number of writes>>
PendPutWritesInputs ==
    {<<a, 1>> : a \in PendAddresses} \cup {<<<<T1, undefined, <<"1">>>>, 2>>}

PendGetConfigs ==
    {Config(t, undefined, undefined) : t \in {T1, T2, TA, TAc}}
        \cup {Config(T1, undefined, <<"1">>), Config(T1, NsA, <<"1">>)}

MaxPendPuts == 2        \* successful puts per run of the pending-writes specification
MaxPendPutWrites == 2   \* putWrites calls per run of the pending-writes specification

PendDoPut ==
    /\ nops.puts < MaxPendPuts
    /\ \E in \in PendPutInputs : put(in[1], in[2], in[3])

PendDoStart ==
    /\ nops.putWrites < MaxPendPutWrites
    /\ \E in \in PendPutWritesInputs :
           putWritesStart(Config(in[1][1], in[1][2], in[1][3]),
                          TaggedWrites(in[2], in[1]), TaskT)

PendDoBatch == putWritesBatch

PendDoGet == \E config \in PendGetConfigs : get(config)

PendDoList == listAll(Config(T1, undefined, undefined), NoOptions)

NextPending == PendDoPut \/ PendDoStart \/ PendDoBatch \/ PendDoGet \/ PendDoList

SpecPending == Init /\ [][NextPending]_vars

----------------------------------------------------------------------------
(* Concurrent puts: each call awaits docClient.put, the store applies the *)
(* requests in an order of its own *)

\* Three puts of checkpoint "1" of thread T1 that differ in every other field, a
\* put of another checkpoint and one of another thread.
RacePutInputs ==
    {<<Config(T1, undefined, undefined), Object(<<"1">>, "v1"), Object(undefined, "m1")>>,
     <<Config(T1, NsA, <<"0">>), Object(<<"1">>, "v2"), Object(undefined, "m2")>>,
     <<Config(T1, undefined, <<"0">>), Object(<<"1">>, "v3"), Object(undefined, "m3")>>,
     <<Config(T1, undefined, undefined), Object(<<"2">>, "v4"), Object(undefined, "m4")>>,
     <<Config(T2, undefined, undefined), Object(<<"1">>, "v5"), Object(undefined, "m5")>>}

RaceGetConfigs == {Config(T1, undefined, <<"1">>), Config(T1, undefined, undefined)}

MaxRacePuts == 3   \* put calls per run of the concurrent specification

\* put(config, checkpoint, metadata) up to its await: validation, the two
\* dumpsTyped, the type check, and docClient.put issued.  The call knows
\* whether a put to its key was in flight together with it.
putBegin(config, checkpoint, metadata) ==
    LET error == putError(config, checkpoint, metadata)
        item == putItem(config, checkpoint, metadata)
        rivals == {c \in inflight : CheckpointKey(c.item) = CheckpointKey(item)}
    IN  IF error # ""
        THEN /\ res' = [op |-> "put", config |-> config, error |-> error,
                        checkpoint |-> checkpoint, metadata |-> metadata,
                        requests |-> <<>>]
             /\ UNCHANGED <<checkpoints, writes, hist, pw, pager, nops, inflight>>
        ELSE /\ inflight' =
                    {IF c \in rivals THEN [c EXCEPT !.overlapped = TRUE] ELSE c :
                         c \in inflight}
                        \cup {[call |-> nops.puts + Cardinality(inflight) + 1,
                               config |-> config, checkpoint |-> checkpoint,
                               metadata |-> metadata, item |-> item,
                               overlapped |-> rivals # {}]}
             /\ res' = [op |-> "put", config |-> config, error |-> "pending",
                        checkpoint |-> checkpoint, metadata |-> metadata,
                        requests |-> <<"put">>]
             /\ UNCHANGED <<checkpoints, writes, hist, pw, pager, nops>>

\* The store executes the docClient.put of a call in flight and the call's
\* await resumes: the size error is thrown on, or the address is returned.
putApply(c) ==
    /\ inflight' = inflight \ {c}
    /\ nops' = [nops EXCEPT !.puts = @ + 1]
    /\ IF sizeGuard(c.item) # ""
       THEN /\ res' = [op |-> "put", config |-> c.config, error |-> sizeGuard(c.item),
                       checkpoint |-> c.checkpoint, metadata |-> c.metadata,
                       requests |-> <<"put">>, call |-> c.call,
                       overlapped |-> c.overlapped]
            /\ UNCHANGED <<checkpoints, writes, hist, pw, pager>>
       ELSE /\ checkpoints' = docPut(checkpoints, c.item)
            /\ res' = [op |-> "put", config |-> c.config, error |-> "",
                       checkpoint |-> c.checkpoint, metadata |-> c.metadata,
                       out |-> putReturn(c.item), requests |-> <<"put">>,
                       call |-> c.call, overlapped |-> c.overlapped]
            /\ hist' = Remember(hist, c.config, c.checkpoint, c.metadata,
                                putReturn(c.item))
            /\ pager' = Raced(c.config)
            /\ UNCHANGED <<writes, pw>>

RaceDoBegin ==
    /\ nops.puts + Cardinality(inflight) < MaxRacePuts
    /\ \E in \in RacePutInputs : putBegin(in[1], in[2], in[3])

RaceDoApply == \E c \in inflight : putApply(c)

RaceDoGet == \E config \in RaceGetConfigs : get(config)

NextRace == RaceDoBegin \/ RaceDoApply \/ RaceDoGet

SpecRace == Init /\ [][NextRace]_vars

----------------------------------------------------------------------------
(* The Write codec on its own: a Write is encoded, decoded, and its *)
(* partition key compared with that of another triple *)

MaxIdLen == 2   \* length of the thread_id and checkpoint_id strings tried

\* The strings of ':' and 'a' up to MaxIdLen, but 'aa': none holds ':::'.
CodecIds ==
    {s \in UNION {[1..n -> {":", "a"}] : n \in 0..MaxIdLen} : s # <<"a", "a">>}

CodecNamespaces == {<<>>, <<"a">>, <<":">>}

CodecTasks == {<<"t">>, <<"t", ":">>, <<":">>}

CodecIdxs == {0, 1, 12}

CodecWrites ==
    {[thread_id |-> t, checkpoint_ns |-> ns, checkpoint_id |-> id, task_id |-> task,
      idx |-> idx, channel |-> "bar", type |-> "json",
      value |-> dumpsTyped(Object(undefined, "x"))[2]] :
        t \in CodecIds, ns \in CodecNamespaces, id \in CodecIds, task \in CodecTasks,
        idx \in CodecIdxs}

CodecTriples ==
    {[thread_id |-> t, checkpoint_ns |-> ns, checkpoint_id |-> id] :
        t \in CodecIds, ns \in CodecNamespaces, id \in CodecIds}

\* new Write({...}) over empty tables
InitCodec ==
    /\ checkpoints = {}
    /\ writes = <<>>
    /\ \E w \in CodecWrites : res = [op |-> "Write", write |-> w]
    /\ hist = {}
    /\ pw = NoPutWrites
    /\ pager = NoPager
    /\ nops = [puts |-> 0, putWrites |-> 0]
    /\ inflight = {}

\* write.toDynamoDBItem()
codecEncode ==
    /\ res.op = "Write"
    /\ res' = [op |-> "toDynamoDBItem", write |-> res.write,
               item |-> toDynamoDBItem(res.write)]
    /\ UNCHANGED <<checkpoints, writes, hist, pw, pager, nops, inflight>>

\* Write.fromDynamoDBItem(item)
codecDecode ==
    /\ res.op = "toDynamoDBItem"
    /\ res' = [op |-> "fromDynamoDBItem", write |-> res.write, item |-> res.item,
               back |-> fromDynamoDBItem(res.item)]
    /\ UNCHANGED <<checkpoints, writes, hist, pw, pager, nops, inflight>>

\* Write.getPartitionKey(another triple)
codecOtherKey ==
    /\ res.op = "fromDynamoDBItem"
    /\ \E other \in CodecTriples :
           res' = [op |-> "getPartitionKey", write |-> res.write, item |-> res.item,
                   back |-> res.back, other |-> other,
                   otherKey |-> getPartitionKey(other)]
    /\ UNCHANGED <<checkpoints, writes, hist, pw, pager, nops, inflight>>

NextCodec == codecEncode \/ codecDecode \/ codecOtherKey

SpecCodec == InitCodec /\ [][NextCodec]_vars

----------------------------------------------------------------------------
(* Decoding stored write items whose keys were not made by toDynamoDBItem *)

MaxParts == 4   \* number of ':::'-separated parts of the partition keys tried

\* Partition keys of 1..MaxParts parts 'a', and the empty key.
StoredPartitionKeys ==
    {Join([k \in 1..n |-> <<"a">>], separator) : n \in 1..MaxParts}
        \cup {<<>>, Join(<<TA, IB, <<>>>>, separator)}

\* The idx part of a sort key: integers, no integer, an integer followed by a
\* letter, nothing.
StoredIdxParts == {<<"0">>, <<"1", "2">>, <<"a">>, <<"1", "a">>, <<"a", "1">>, <<>>}

StoredSortKeys ==
    {Join(<<task, idx>>, separator) : task \in {TaskT, <<>>}, idx \in StoredIdxParts}
        \cup {TaskT, <<>>, Join(<<TaskT, <<"0">>, <<"1">>>>, separator)}

StoredItems ==
    {[thread_id_checkpoint_id_checkpoint_ns |-> pk, task_id_idx |-> sk,
      channel |-> "bar", type |-> "json",
      value |-> dumpsTyped(Object(undefined, "x"))[2]] :
        pk \in StoredPartitionKeys, sk \in StoredSortKeys}

\* An item of the writes table, as a query returns it
InitDecode ==
    /\ checkpoints = {}
    /\ writes = <<>>
    /\ \E item \in StoredItems : res = [op |-> "Item", item |-> item]
    /\ hist = {}
    /\ pw = NoPutWrites
    /\ pager = NoPager
    /\ nops = [puts |-> 0, putWrites |-> 0]
    /\ inflight = {}

\* Write.fromDynamoDBItem(item): it has no throw, so it returns a Write.
decodeStored ==
    /\ res.op = "Item"
    /\ res' = [op |-> "fromDynamoDBItem", item |-> res.item, error |-> "",
               back |-> fromDynamoDBItem(res.item)]
    /\ UNCHANGED <<checkpoints, writes, hist, pw, pager, nops, inflight>>

\* Write.toDynamoDBItem() of the Write decoded
encodeDecoded ==
    /\ res.op = "fromDynamoDBItem"
    /\ "error" \in DOMAIN res
    /\ res.back.thread_id # undefined /\ res.back.checkpoint_id # undefined
    /\ res.back.checkpoint_ns # undefined /\ res.back.task_id # undefined
    /\ res.back.idx # NaN
    /\ res' = [op |-> "toDynamoDBItem", item |-> res.item, back |-> res.back,
               again |-> toDynamoDBItem(res.back)]
    /\ UNCHANGED <<checkpoints, writes, hist, pw, pager, nops, inflight>>

NextDecode == decodeStored \/ encodeDecoded

SpecDecode == InitDecode /\ [][NextDecode]_vars

----------------------------------------------------------------------------
(* Claims checked under Spec *)

\* The address of a config, as put returns addresses.
AddressOf(config) ==
    [thread_id |-> config.thread_id,
     checkpoint_ns |-> config.checkpoint_ns,
     checkpoint_id |-> config.checkpoint_id]

\* The remembered puts of one thread, and the one with the greatest checkpoint id.
PutsOf(thread_id) == {e \in hist : e.key[1] = thread_id}

Newest(entries) == CHOOSE e \in entries : \A f \in entries : ~LexLess(e.key[2], f.key[2])

GotTuple == res.op = "getTuple" /\ res.error = "" /\ Len(res.out) = 1

\* C1: a put followed by a getTuple with exactly the address put returned yields
\* a tuple whose checkpoint and metadata are the ones given to put and whose
\* config is that address.
C1_PutGetRoundTrip ==
    \A e \in hist :
        (res.op = "getTuple" /\ AddressOf(res.config) = e.out)
            => /\ GotTuple
               /\ res.out[1].checkpoint = e.checkpoint
               /\ res.out[1].metadata = e.metadata
               /\ res.out[1].config = e.out

C1_Witness ==
    /\ GotTuple
    /\ \E e \in hist : /\ AddressOf(res.config) = e.out
                       /\ e.out.checkpoint_ns = NsA
                       /\ e.replaced # {}
                       /\ res.out[1].checkpoint = e.checkpoint

\* C2 as stated: after puts into a thread, every getTuple without checkpoint_id
\* returns the thread's record with the greatest checkpoint_id.
C2_LatestOfThread_AsStated ==
    (/\ res.op = "getTuple"
     /\ res.config.checkpoint_id = undefined
     /\ PutsOf(res.config.thread_id) # {})
        => /\ GotTuple
           /\ res.out[1].config = Newest(PutsOf(res.config.thread_id)).out
           /\ res.out[1].checkpoint = Newest(PutsOf(res.config.thread_id)).checkpoint

\* C2, amended: after puts into a thread, a getTuple without checkpoint_id and
\* with no or an empty checkpoint_ns returns the thread's record with the
\* lexicographically greatest checkpoint_id.
C2_LatestOfThread ==
    (/\ res.op = "getTuple"
     /\ res.config.checkpoint_id = undefined
     /\ res.config.checkpoint_ns \in {undefined, <<>>}
     /\ PutsOf(res.config.thread_id) # {})
        => /\ GotTuple
           /\ res.out[1].config = Newest(PutsOf(res.config.thread_id)).out
           /\ res.out[1].checkpoint = Newest(PutsOf(res.config.thread_id)).checkpoint

IdsTenAndTwo == {<<"1", "0">>, <<"2">>}

\* "10" was put after "2" and sorts below it: the greatest id is "2", not the last put.
C2_Witness ==
    /\ GotTuple
    /\ res.config.thread_id = T1
    /\ res.config.checkpoint_ns = undefined
    /\ res.config.checkpoint_id = undefined
    /\ {e.key[2] : e \in PutsOf(T1)} = IdsTenAndTwo
    /\ res.out[1].config.checkpoint_id = <<"2">>
    /\ \E e \in PutsOf(T1) : e.key[2] = <<"2">> /\ e.out.checkpoint_ns = NsA

\* C3: a getTuple with a non-empty checkpoint_ns and no checkpoint_id returns the
\* newest checkpoint of the thread with that namespace, whenever one exists.
C3_LatestOfNamespace ==
    LET inNs == {e \in PutsOf(res.config.thread_id) :
                    e.out.checkpoint_ns = res.config.checkpoint_ns}
    IN  (/\ res.op = "getTuple"
         /\ res.config.checkpoint_id = undefined
         /\ res.config.checkpoint_ns \notin {undefined, <<>>}
         /\ inNs # {})
            => /\ GotTuple
               /\ res.out[1].config = Newest(inNs).out

\* C4: a put on the (thread_id, checkpoint_id) of an earlier put overwrites it: a
\* getTuple by that id returns the checkpoint, metadata and parent of the most
\* recent put, and the table holds exactly one item for that key.
C4_PutOverwrites ==
    \A e \in hist :
        /\ Cardinality({i \in checkpoints : CheckpointKey(i) = e.key}) = 1
        /\ (/\ res.op = "getTuple"
            /\ res.config.thread_id = e.key[1]
            /\ res.config.checkpoint_id = e.key[2])
               => /\ GotTuple
                  /\ res.out[1].checkpoint = e.checkpoint
                  /\ res.out[1].metadata = e.metadata
                  /\ res.out[1].config.checkpoint_ns = e.out.checkpoint_ns
                  /\ IF e.config.checkpoint_id \in {undefined, <<>>}
                     THEN res.out[1].parentConfig = <<>>
                     ELSE /\ Len(res.out[1].parentConfig) = 1
                          /\ res.out[1].parentConfig[1].checkpoint_id = e.config.checkpoint_id

\* The record was put twice, with another payload, namespace and parent the first time.
C4_Witness ==
    /\ GotTuple
    /\ res.config.thread_id = T1
    /\ res.config.checkpoint_ns = <<>>
    /\ res.config.checkpoint_id = <<"1", "0">>
    /\ \E e \in hist : /\ e.key = <<T1, <<"1", "0">>>>
                       /\ Cardinality(e.replaced) = 1
                       /\ \A c \in e.replaced : c.id = <<"1", "0">> /\ c.body = "v1"
                       /\ e.checkpoint.id = <<"1", "0">> /\ e.checkpoint.body = "v2"
                       /\ e.config.thread_id = T1
                       /\ e.config.checkpoint_ns = undefined
                       /\ e.config.checkpoint_id = <<"1">>
    /\ Len(res.out[1].parentConfig) = 1

Descending(tuples) ==
    \A k \in 1..Len(tuples) - 1 :
        LexLess(tuples[k + 1].config.checkpoint_id, tuples[k].config.checkpoint_id)

\* C5: list with limit k yields at most k tuples, all of the addressed thread, in
\* strictly descending checkpoint_id order.
C5_ListLimitOrder ==
    res.op = "list"
        => /\ Len(res.options.limit) = 1 => Len(res.out) <= res.options.limit[1]
           /\ \A k \in 1..Len(res.out) : res.out[k].config.thread_id = res.config.thread_id
           /\ Descending(res.out)

\* The limit cut the result: the thread holds more records than the limit, the
\* other thread holds one too.
C5_Witness ==
    /\ res.op = "list"
    /\ res.config.thread_id = T1
    /\ res.options.limit = <<1>>
    /\ res.options.before = undefined
    /\ Len(res.out) = 1
    /\ Cardinality(PutsOf(T1)) = 2
    /\ \E i \in checkpoints : i.thread_id = T2

\* The parent a tuple must report for the put remembered in e, as C10 states it.
ParentAsStated(e) ==
    IF e.config.checkpoint_id = undefined THEN <<>>
    ELSE <<[thread_id |-> e.key[1], checkpoint_ns |-> e.out.checkpoint_ns,
            checkpoint_id |-> e.config.checkpoint_id]>>

\* The same with an empty checkpoint_id counted as none.
ParentAmended(e) ==
    IF e.config.checkpoint_id \in {undefined, <<>>} THEN <<>> ELSE ParentAsStated(e)

EntryOf(tuple) ==
    CHOOSE e \in hist : e.key = <<tuple.config.thread_id, tuple.config.checkpoint_id>>

AddressFields == {"thread_id", "checkpoint_ns", "checkpoint_id"}

PutReturnsAddressOnly ==
    (res.op = "put" /\ res.error = "")
        => /\ DOMAIN res.out = AddressFields
           /\ res.out.thread_id = res.config.thread_id
           /\ res.out.checkpoint_ns =
                  (IF res.config.checkpoint_ns = undefined THEN <<>>
                   ELSE res.config.checkpoint_ns)
           /\ res.out.checkpoint_id = res.checkpoint.id

\* C10 as stated: getTuple and list report parentConfig = (thread_id, the
\* record's checkpoint_ns, p) when put's address carried checkpoint_id p, and no
\* parentConfig when it carried none; put returns only the new address.
C10_ParentConfig_AsStated ==
    /\ GotTuple => res.out[1].parentConfig = ParentAsStated(EntryOf(res.out[1]))
    /\ res.op = "list" =>
           \A k \in 1..Len(res.out) :
               res.out[k].parentConfig = ParentAsStated(EntryOf(res.out[k]))
    /\ PutReturnsAddressOnly

\* C10, amended: the same for a non-empty p; when put's address carried no
\* checkpoint_id, or the empty string, parentConfig is absent.
C10_ParentConfig ==
    /\ GotTuple => res.out[1].parentConfig = ParentAmended(EntryOf(res.out[1]))
    /\ res.op = "list" =>
           \A k \in 1..Len(res.out) :
               res.out[k].parentConfig = ParentAmended(EntryOf(res.out[k]))
    /\ PutReturnsAddressOnly

\* list yields a record with a parent in namespace "a" and one without a parent.
C10_Witness ==
    /\ res.op = "list"
    /\ Len(res.out) = 2
    /\ Len(res.out[1].parentConfig) = 1
    /\ res.out[1].parentConfig[1].thread_id = T1
    /\ res.out[1].parentConfig[1].checkpoint_ns = NsA
    /\ res.out[1].parentConfig[1].checkpoint_id = <<"1">>
    /\ res.out[2].parentConfig = <<>>
    /\ EntryOf(res.out[2]).config.checkpoint_id = undefined

\* The remembered puts a get of this address is to find: the record of the id
\* when one is given, otherwise the thread's records (those of the namespace
\* when a non-empty one is given).
Matching(config) ==
    IF config.checkpoint_id # undefined
    THEN {e \in hist : e.key = <<config.thread_id, config.checkpoint_id>>}
    ELSE IF config.checkpoint_ns \in {undefined, <<>>}
    THEN PutsOf(config.thread_id)
    ELSE {e \in PutsOf(config.thread_id) : e.out.checkpoint_ns = config.checkpoint_ns}

\* C11: getTuple of a valid address raises no error, and returns undefined
\* exactly when no matching record exists: without checkpoint_id when the
\* thread holds no (matching) checkpoint, with checkpoint_id when no record is
\* stored at (thread_id, checkpoint_id).
C11_AbsentIffNoRecord ==
    res.op = "getTuple" =>
        /\ res.error = ""
        /\ res.out = <<>> <=> Matching(res.config) = {}

\* C27: in every reachable state each checkpoint item that has a
\* parent_checkpoint_id references a stored item: the checkpoints table holds an
\* item of the same thread_id and checkpoint_ns whose checkpoint_id is that
\* parent_checkpoint_id. (An empty parent_checkpoint_id counts as none, as
\* getTuple reads it.)
C27_ParentExists ==
    \A i \in checkpoints :
        (i.parent_checkpoint_id # undefined /\ i.parent_checkpoint_id # <<>>) =>
            \E p \in checkpoints :
                /\ p.thread_id = i.thread_id
                /\ p.checkpoint_ns = i.checkpoint_ns
                /\ p.checkpoint_id = i.parent_checkpoint_id

\* The last call was a list with no limit and no before that the store answered.
ListedAll ==
    /\ res.op = "list"
    /\ res.error = ""
    /\ res.options.limit = <<>>
    /\ res.options.before = undefined

\* The stored items of the thread the last call named.
ThreadItems == {i \in checkpoints : i.thread_id = res.config.thread_id}

YieldedNamespaces == {res.out[k].config.checkpoint_ns : k \in 1..Len(res.out)}

\* C31: the checkpoint_ns of the address passed to list does not filter: a list
\* yields what the list of the same thread and options without a namespace
\* yields, and with no limit and no before it yields the items of every
\* namespace of the thread.
C31_ListAllNamespaces ==
    (res.op = "list" /\ res.error = "") =>
        /\ res.out = list(checkpoints, [res.config EXCEPT !.checkpoint_ns = undefined],
                          res.options)
        /\ ListedAll => YieldedNamespaces = {i.checkpoint_ns : i \in ThreadItems}

\* A list addressed at namespace "a" yielded a checkpoint of namespace "" and a
\* checkpoint of namespace "a".
C31_Witness ==
    /\ res.op = "list"
    /\ res.error = ""
    /\ res.config.checkpoint_ns = NsA
    /\ <<>> \in YieldedNamespaces
    /\ NsA \in YieldedNamespaces

\* The stored item a parent reference of item i leads to: the one getTuple finds
\* at parentConfig(i), if any.
ParentItems(i) ==
    IF parentConfig(i) = <<>> THEN {}
    ELSE {p \in checkpoints : /\ p.thread_id = i.thread_id
                              /\ p.checkpoint_id = i.parent_checkpoint_id}

RECURSIVE Ancestors(_, _)
\* The items reached from the set S by at most n more parent references.
Ancestors(S, n) ==
    IF n = 0 THEN S
    ELSE Ancestors(S \cup UNION {ParentItems(x) : x \in S}, n - 1)

\* C32: the parent references of the stored checkpoints form no cycle: no item
\* is reached from itself by following parent references, and in particular no
\* item is its own parent.
C32_ParentChainAcyclic ==
    \A i \in checkpoints :
        i \notin Ancestors(ParentItems(i), Cardinality(checkpoints))

\* The tuple is of the last put to its (thread_id, checkpoint_id): its
\* namespace and its checkpoint are that put's.
OfLastPut(tuple) ==
    \A e \in hist :
        e.key = <<tuple.config.thread_id, tuple.config.checkpoint_id>> =>
            /\ tuple.config.checkpoint_ns = e.out.checkpoint_ns
            /\ tuple.checkpoint = e.checkpoint

\* C34: the checkpoints table holds at most one item per (thread_id,
\* checkpoint_id), whatever the namespaces: the item of a key carries the
\* checkpoint_ns of the last put to that key, and every tuple a getTuple or a
\* list returns for the key is of that last put, so a record put earlier under
\* another namespace is replaced and no longer returned.
C34_OnePerThreadAndId ==
    /\ \A i \in checkpoints : \A j \in checkpoints :
           CheckpointKey(i) = CheckpointKey(j) => i = j
    /\ \A e \in hist : \A i \in checkpoints :
           CheckpointKey(i) = e.key => i.checkpoint_ns = e.out.checkpoint_ns
    /\ GotTuple => OfLastPut(res.out[1])
    /\ (res.op = "list" /\ res.error = "") =>
           \A k \in 1..Len(res.out) : OfLastPut(res.out[k])

\* A list of the whole thread yielded one tuple, of namespace "a", for an id
\* that was put under namespace "" before.
C34_Witness ==
    /\ ListedAll
    /\ Len(res.out) = 1
    /\ res.out[1].config.checkpoint_ns = NsA
    /\ \E e \in hist :
           /\ e.key = <<res.out[1].config.thread_id, res.out[1].config.checkpoint_id>>
           /\ Cardinality(e.namespaces) = 2

\* The stored items at the thread_id and checkpoint_id of the last call's address.
StoredAtAddress ==
    {i \in checkpoints : CheckpointKey(i) = <<res.config.thread_id, res.config.checkpoint_id>>}

\* C35: a getTuple addressed with a checkpoint_id returns the record stored at
\* (thread_id, checkpoint_id) whatever checkpoint_ns the address carries
\* (undefined when there is none), and the config it returns carries the stored
\* record's checkpoint_ns.
C35_PointGetIgnoresNamespace ==
    (res.op = "getTuple" /\ res.error = "" /\ res.config.checkpoint_id # undefined) =>
        IF StoredAtAddress = {} THEN res.out = <<>>
        ELSE /\ Len(res.out) = 1
             /\ \A i \in StoredAtAddress :
                    /\ res.out[1].config = itemConfig(i)
                    /\ res.out[1].checkpoint = loadsTyped(i.type, i.checkpoint)
                    /\ res.out[1].metadata = loadsTyped(i.type, i.metadata)

\* A getTuple addressed at namespace "" and id "1" returned the record stored
\* under namespace "a".
C35_Witness ==
    /\ GotTuple
    /\ res.config.checkpoint_id = <<"1">>
    /\ res.config.checkpoint_ns = <<>>
    /\ res.out[1].config.checkpoint_ns = NsA
    /\ res.out[1].config.checkpoint_id = <<"1">>

----------------------------------------------------------------------------
(* Claims checked under SpecPage *)

RECURSIVE DescendingIds(_)
\* The ids of a set, greatest first.
DescendingIds(ids) ==
    IF ids = {} THEN <<>>
    ELSE LET top == CHOOSE x \in ids : \A y \in ids : ~LexLess(x, y)
         IN  <<top>> \o DescendingIds(ids \ {top})

\* The full history of a thread, newest first, from the puts remembered.
FullHistory(thread_id) == DescendingIds({e.key[2] : e \in PutsOf(thread_id)})

RECURSIVE Concat(_)
Concat(seqs) == IF Len(seqs) = 0 THEN <<>> ELSE seqs[1] \o Concat(Tail(seqs))

Yielded == Concat(pager.pages)

IsPrefix(a, b) == Len(a) <= Len(b) /\ a = SubSeq(b, 1, Len(a))

\* C6: with no put in between, paging through list with limit k and before = the
\* last checkpoint_id of the previous page never yields a record twice and skips
\* none: every page lies strictly below its before bound, and the pages up to the
\* empty one are together the thread's full history, newest first.
C6_PagingNoOverlapNoGap ==
    (pager.status # "idle" /\ ~pager.raced)
        => /\ \A k \in 1..Len(Yielded) - 1 : LexLess(Yielded[k + 1], Yielded[k])
           /\ IsPrefix(Yielded, FullHistory(pager.thread_id))
           /\ \A k \in 1..Len(pager.pages) :
                  Len(pager.limit) = 1 => Len(pager.pages[k]) <= pager.limit[1]
           /\ pager.status = "done" => Yielded = FullHistory(pager.thread_id)

\* Three records read in pages of one: "2", "10", "1", then the empty page.
C6_Witness ==
    /\ pager.status = "done"
    /\ ~pager.raced
    /\ pager.limit = <<1>>
    /\ pager.pages = << <<(<<"2">>)>>, <<(<<"1", "0">>)>>, <<(<<"1">>)>>, <<>> >>

\* C19: paging through list with before = the last checkpoint_id returned,
\* while puts to the thread come between the pages, yields no checkpoint_id
\* twice, yields on each page only ids below the before bound the page was
\* asked with, and has yielded, when the empty page ends it, every
\* checkpoint_id the thread had when the paging began.
C19_PagingUnderPuts ==
    pager.status # "idle" =>
        /\ \A j \in 1..Len(Yielded), k \in 1..Len(Yielded) :
               j # k => Yielded[j] # Yielded[k]
        /\ \A p \in 1..Len(pager.pages) :
               pager.befores[p] # undefined =>
                   \A k \in 1..Len(pager.pages[p]) :
                       LexLess(pager.pages[p][k], pager.befores[p])
        /\ pager.status = "done" =>
               pager.atStart \subseteq {Yielded[k] : k \in 1..Len(Yielded)}

IdsOneAndTen == {<<"1">>, <<"1", "0">>}

\* Thread T1 had "1" and "10"; after the page with "10" a put added "2" and
\* another replaced "1"; the paging yielded "10", "1" and ended, "2" unseen.
C19_Witness ==
    /\ pager.status = "done"
    /\ pager.raced
    /\ pager.thread_id = T1
    /\ pager.atStart = IdsOneAndTen
    /\ pager.pages = << <<(<<"1", "0">>)>>, <<(<<"1">>)>>, <<>> >>
    /\ pager.befores = <<undefined, <<"1", "0">>, <<"1">>>>
    /\ \E i \in checkpoints : i.thread_id = T1 /\ i.checkpoint_id = <<"2">>

----------------------------------------------------------------------------
(* Claims checked under SpecWrites *)

\* The address the call in pw writes under, and its number of writes.
CallAddress == validateConfigurable(pw.config)

NWrites == Len(pw.pendingWrites)

\* The records of a writes table, decoded, that are of the call's checkpoint
\* (thread_id, checkpoint_id, checkpoint_ns) and task.
OfCall(table) ==
    SelectSeq([p \in 1..Len(table) |-> fromDynamoDBItem(table[p])] \o <<>>,
              LAMBDA w : /\ w.thread_id = CallAddress.thread_id
                         /\ w.checkpoint_id = CallAddress.checkpoint_id
                         /\ w.checkpoint_ns = CallAddress.checkpoint_ns
                         /\ w.task_id = pw.taskId)

\* How many records of the call's checkpoint and task were there before the
\* call at an idx the call does not write.
Stale == Len(SelectSeq(OfCall(pw.base), LAMBDA w : w.idx >= NWrites))

\* Among the records `mine`, every idx occurs once, every idx of 0..N-1 occurs,
\* and the record of idx k - 1 holds the k-th write of the input.
EachInputStoredOnce(mine) ==
    LET idxs == {mine[p].idx : p \in 1..Len(mine)}
    IN  /\ Cardinality(idxs) = Len(mine)
        /\ \A k \in 1..NWrites : (k - 1) \in idxs
        /\ \A p \in 1..Len(mine) :
               mine[p].idx < NWrites =>
                   /\ mine[p].channel = pw.pendingWrites[mine[p].idx + 1][1]
                   /\ loadsTyped(mine[p].type, mine[p].value)
                          = pw.pendingWrites[mine[p].idx + 1][2]

\* The last call is a successful get that found the checkpoint of the call.
GotCallCheckpoint ==
    /\ GotTuple
    /\ res.out[1].config = [thread_id |-> CallAddress.thread_id,
                            checkpoint_ns |-> CallAddress.checkpoint_ns,
                            checkpoint_id |-> CallAddress.checkpoint_id]

\* The pending writes of the call's task that the get returned.
PendingOfTask == SelectSeq(res.out[1].pendingWrites, LAMBDA w : w[1] = pw.taskId)

\* The input of the call as pending writes (task_id, channel, value).
InputAsPending ==
    {<<pw.taskId, pw.pendingWrites[k][1], pw.pendingWrites[k][2]>> : k \in 1..NWrites}

\* C7 as stated: when putWrites with N writes has returned without error, the
\* writes table holds exactly N records of that checkpoint and task, idx 0..N-1
\* by position, and a get of that checkpoint returns N pending writes.
C7_PutWritesStoresAll_AsStated ==
    pw.status = "done" =>
        LET mine == OfCall(writes)
        IN  /\ EachInputStoredOnce(mine)
            /\ Len(mine) = NWrites
            /\ GotCallCheckpoint => Len(res.out[1].pendingWrites) = NWrites

\* C7: when putWrites with N writes for one task has returned without error,
\* the writes table holds, for every idx in 0..N-1, exactly one record of that
\* checkpoint and task, holding the write at that position of the input; the
\* records of that task at idx >= N that were there before remain, so the count
\* is N plus their number; and a get that finds the checkpoint under the call's
\* thread_id, checkpoint_id and checkpoint_ns returns, for that task, each of
\* the N writes once (task_id, channel, decoded value) besides the remaining
\* ones.
C7_PutWritesStoresAll ==
    pw.status = "done" =>
        LET mine == OfCall(writes)
        IN  /\ EachInputStoredOnce(mine)
            /\ Len(mine) = NWrites + Stale
            /\ GotCallCheckpoint =>
                   LET got == PendingOfTask
                       distinct == {got[p] : p \in 1..Len(got)}
                   IN  /\ Len(got) = NWrites + Stale
                       /\ Cardinality(distinct) = Len(got)
                       /\ InputAsPending \subseteq distinct

\* A call with 26 writes returned where 51 had been stored, and a get of that
\* checkpoint returned them.
C7_Witness ==
    /\ pw.status = "done"
    /\ NWrites = BatchSize + 1
    /\ Stale = BatchSize
    /\ GotCallCheckpoint
    /\ Len(PendingOfTask) = 2 * BatchSize + 1

\* ceil(n / 25)
CeilBatches(n) == (n + BatchSize - 1) \div BatchSize

\* The items of a sequence of batches.
ItemsOf(batches) ==
    UNION {{batches[b][k] : k \in 1..Len(batches[b])} : b \in 1..Len(batches)}

Stored == {writes[p] : p \in 1..Len(writes)}

\* C8: a putWrites call with N writes issues exactly ceil(N/25) batchWrites, one
\* after the other in input order, each of at most 25 items and every one but
\* the last of exactly 25; a batch is issued only after the one before it has
\* completed (its items are stored), and N = 0 issues none.
C8_Batching ==
    (pw.status # "idle" /\ putWritesError(pw.config) = "") =>
        LET items == writeItems(CallAddress, pw.pendingWrites, pw.taskId) \o <<>>
            sent == Concat(pw.issued)
        IN  /\ \A b \in 1..Len(pw.issued) :
                   /\ Len(pw.issued[b]) <= BatchSize
                   /\ b < CeilBatches(NWrites) => Len(pw.issued[b]) = BatchSize
            /\ IsPrefix(sent, items)
            /\ Len(pw.issued) <= CeilBatches(NWrites)
            /\ Len(pw.issued) <= pw.completed + 1
            /\ ItemsOf(SubSeq(pw.issued, 1, pw.completed)) \subseteq Stored
            /\ pw.status = "done" =>
                   /\ Len(pw.issued) = CeilBatches(NWrites)
                   /\ pw.completed = Len(pw.issued)
                   /\ sent = items
            /\ NWrites = 0 => pw.issued = <<>>

\* A call with 51 writes returned after three batches, the last of one item.
C8_Witness ==
    /\ pw.status = "done"
    /\ NWrites = 2 * BatchSize + 1
    /\ Len(pw.issued) = 3
    /\ Len(pw.issued[2]) = BatchSize
    /\ Len(pw.issued[3]) = 1

\* C9: when the j-th batch of a putWrites call fails, the call ends with that
\* error, the items of the batches before j are stored, no batch after j was
\* issued and no item of batch j or later is stored by the call, the failed
\* batch is not issued again, and what the table held before is still there
\* unless a batch before j replaced it.
C9_BatchFailure ==
    (pw.status # "idle" /\ pw.failed > 0) =>
        LET j == pw.failed
            before == {pw.base[p] : p \in 1..Len(pw.base)}
            earlier == ItemsOf(SubSeq(pw.batches, 1, j - 1))
            later == ItemsOf(SubSeq(pw.batches, j, Len(pw.batches)))
            earlierKeys == {WriteKey(i) : i \in earlier}
        IN  /\ pw.status = "error"
            /\ pw.error # ""
            /\ res.op = "putWrites" => res.error = pw.error
            /\ earlier \subseteq Stored
            /\ \A i \in later : i \in Stored => i \in before
            /\ Len(pw.issued) = j
            /\ pw.completed = j - 1
            /\ \A i \in before : WriteKey(i) \notin earlierKeys => i \in Stored
            /\ Stored \subseteq before \cup earlier

\* The second of three batches failed: the error is reported, the first batch
\* is stored.
C9_Witness ==
    /\ pw.status = "error"
    /\ pw.failed = 2
    /\ Len(pw.batches) = 3
    /\ res.op = "putWrites"
    /\ res.error = "StoreError"
    /\ Len(writes) >= BatchSize

\* The batch (from 0) of the k-th write of the input.
BatchOfWrite(k) == (k - 1) \div BatchSize

\* C30: at every point of a putWrites call the records it has stored are those
\* of a prefix of its batches: if a record of batch j was stored by the call (it
\* is in the table and was not there before), every record of the batches before
\* j is in the table; and a getTuple that finds the call's checkpoint during or
\* after the call returns, with any write of batch j that the call stored, all
\* the writes of the batches before j.
C30_PrefixOfBatches ==
    (pw.status # "idle" /\ putWritesError(pw.config) = "") =>
        LET items == writeItems(CallAddress, pw.pendingWrites, pw.taskId)
            before == {pw.base[p] : p \in 1..Len(pw.base)}
            asPending(k) == <<pw.taskId, pw.pendingWrites[k][1], pw.pendingWrites[k][2]>>
            byCall == {k \in 1..NWrites : items[k] \in Stored /\ items[k] \notin before}
        IN  /\ \A k \in byCall : \A e \in 1..NWrites :
                   BatchOfWrite(e) < BatchOfWrite(k) => items[e] \in Stored
            /\ GotCallCheckpoint =>
                   LET got == {PendingOfTask[p] : p \in 1..Len(PendingOfTask)}
                   IN  \A k \in byCall : \A e \in 1..NWrites :
                           (asPending(k) \in got /\ BatchOfWrite(e) < BatchOfWrite(k))
                               => asPending(e) \in got

\* A getTuple between the first and the second of three batches returned the 25
\* writes of the first.
C30_Witness ==
    /\ pw.status = "running"
    /\ Len(pw.batches) = 3
    /\ pw.completed = 1
    /\ pw.base = <<>>
    /\ GotCallCheckpoint
    /\ Len(PendingOfTask) = BatchSize

\* C25: stored records are immutable: in every step, a checkpoint item whose key
\* is still in the checkpoints table and a write item whose key is still in the
\* writes table have the contents they had before the step.
C25_StoredImmutable ==
    [][/\ \A i \in checkpoints :
              \A j \in checkpoints' : CheckpointKey(j) = CheckpointKey(i) => j = i
       /\ \A k \in 1..Len(writes) :
              \A l \in 1..Len(writes') :
                  WriteKey(writes'[l]) = WriteKey(writes[k]) => writes'[l] = writes[k]]_vars

\* C26: in every reachable state each item of the writes table belongs to a
\* stored checkpoint: the checkpoints table holds an item whose thread_id,
\* checkpoint_id and checkpoint_ns give the write's partition key.
C26_WriteHasCheckpoint ==
    \A k \in 1..Len(writes) :
        \E i \in checkpoints :
            getPartitionKey(i) = writes[k].thread_id_checkpoint_id_checkpoint_ns

\* The items the table held for the call's checkpoint and task when the call
\* began: what earlier calls with the same address and task_id left.
OfEarlierCalls ==
    {pw.base[p] : p \in {q \in 1..Len(pw.base) :
        /\ pw.base[q].thread_id_checkpoint_id_checkpoint_ns = getPartitionKey(CallAddress)
        /\ fromDynamoDBItem(pw.base[q]).task_id = pw.taskId}}

\* The pending write getTuple makes of a writes item.
AsPending(item) ==
    <<fromDynamoDBItem(item).task_id, item.channel, loadsTyped(item.type, item.value)>>

\* C37: when a putWrites returns that follows earlier ones with the same address
\* and task_id, the record at every idx below its number of writes is its own
\* (an earlier record at such an idx is gone unless it was the same), and the
\* earlier records at an idx from that number on are still stored, unchanged,
\* and a getTuple that finds the checkpoint still returns them.
C37_LaterCallOverwritesPrefix ==
    pw.status = "done" =>
        LET items == writeItems(CallAddress, pw.pendingWrites, pw.taskId)
            got == IF GotCallCheckpoint
                   THEN {res.out[1].pendingWrites[k] : k \in 1..Len(res.out[1].pendingWrites)}
                   ELSE {}
        IN  /\ \A k \in 1..NWrites :
                   /\ items[k] \in Stored
                   /\ GotCallCheckpoint => AsPending(items[k]) \in got
            /\ \A b \in OfEarlierCalls :
                   IF fromDynamoDBItem(b).idx < NWrites
                   THEN /\ b \in Stored => b = items[fromDynamoDBItem(b).idx + 1]
                        /\ (GotCallCheckpoint /\ AsPending(b) \in got)
                               => b = items[fromDynamoDBItem(b).idx + 1]
                   ELSE /\ b \in Stored
                        /\ GotCallCheckpoint => AsPending(b) \in got

\* A call of one write returned after a call of 26 writes with other values at
\* the same address and task, and a getTuple of the checkpoint returned the one
\* new write and the 25 old ones.
C37_Witness ==
    /\ pw.status = "done"
    /\ NWrites = 1
    /\ Cardinality(OfEarlierCalls) = BatchSize + 1
    /\ \A b \in OfEarlierCalls : AsPending(b)[3] # pw.pendingWrites[1][2]
    /\ GotCallCheckpoint
    /\ Len(PendingOfTask) = BatchSize + 1

\* The input positions (idx + 1) of the pending writes of the call's task that
\* the getTuple returned, in the order returned.
ReturnedPositions == [p \in 1..Len(PendingOfTask) |-> PendingOfTask[p][3].body[2]] \o <<>>

\* C38: with the writes of a partition read in ascending sort-key order, a
\* getTuple returns the pending writes of one task in the order in which they
\* were passed to putWrites, ascending by idx, whatever their number.
C38_PendingInInputOrder ==
    (pw.status = "done" /\ GotCallCheckpoint) =>
        \A p \in 1..Len(ReturnedPositions) : \A q \in 1..Len(ReturnedPositions) :
            p < q => ReturnedPositions[p] < ReturnedPositions[q]

\* The step is a successful put of what the last successful put to the same
\* (thread_id, checkpoint.id) was given: same address, checkpoint and metadata.
PutRepeated ==
    /\ res'.op = "put"
    /\ res'.error = ""
    /\ \E e \in hist : /\ e.key = <<res'.config.thread_id, res'.checkpoint.id>>
                       /\ e.config = res'.config
                       /\ e.checkpoint = res'.checkpoint
                       /\ e.metadata = res'.metadata

\* The putWrites in progress repeats a call: every item it writes was in the
\* table, the same, when it began.
PutWritesRepeated ==
    /\ pw.status = "running"
    /\ \A b \in 1..Len(pw.batches) : \A k \in 1..Len(pw.batches[b]) :
           \E p \in 1..Len(pw.base) : pw.base[p] = pw.batches[b][k]

\* C40: put and putWrites are idempotent: a successful put that repeats the
\* last put to its key, and every batch of a putWrites that repeats a call
\* whose items are stored, leave the checkpoints table and the writes table
\* exactly as they were.
C40_Idempotent ==
    [][/\ PutRepeated => (checkpoints' = checkpoints /\ writes' = writes)
       /\ (PutWritesRepeated /\ res'.op = "putWrites")
              => (checkpoints' = checkpoints /\ writes' = writes)]_vars

\* A second putWrites of the same 26 writes returned, and so did a second put of
\* the same checkpoint: the writes table is the one the call began with.
C40_Witness ==
    /\ pw.status = "done"
    /\ NWrites = BatchSize + 1
    /\ Len(pw.base) = BatchSize + 1
    /\ writes = pw.base
    /\ nops.puts = 2
    /\ Cardinality(checkpoints) = 1
    /\ \A e \in hist : e.replaced = {e.checkpoint} /\ Cardinality(e.namespaces) = 1

----------------------------------------------------------------------------
(* Claims checked under SpecErrors *)

ValidationErrors ==
    {"Missing configurable", "Invalid thread_id", "Invalid checkpoint_ns",
     "Invalid checkpoint_id"}

\* The error of an address by the stated order, "" for none.
FirstError(config) ==
    CASE ~config.present -> "Missing configurable"
      [] config.present /\ ~IsString(config.thread_id) -> "Invalid thread_id"
      [] /\ config.present /\ IsString(config.thread_id)
         /\ config.checkpoint_ns # undefined /\ ~IsString(config.checkpoint_ns)
            -> "Invalid checkpoint_ns"
      [] /\ config.present /\ IsString(config.thread_id)
         /\ (config.checkpoint_ns = undefined \/ IsString(config.checkpoint_ns))
         /\ config.checkpoint_id # undefined /\ ~IsString(config.checkpoint_id)
            -> "Invalid checkpoint_id"
      [] OTHER -> ""

\* C12: the validation of an address fails with the first of 'Missing
\* configurable' (no configurable), 'Invalid thread_id' (thread_id no string),
\* 'Invalid checkpoint_ns' (present and no string), 'Invalid checkpoint_id'
\* (present and no string), and succeeds on every other address: getTuple, put
\* and putWrites, which validate first, fail with exactly that error, and with
\* no validation error when there is none.
C12_ValidationOrder ==
    res.op \in {"getTuple", "put", "putWrites"} =>
        IF FirstError(res.config) # ""
        THEN res.error = FirstError(res.config)
        ELSE res.error \notin ValidationErrors

\* An address wrong in all three fields failed on thread_id.
C12_Witness ==
    /\ res.op = "getTuple"
    /\ res.config.present
    /\ res.config.thread_id = aNumber
    /\ res.config.checkpoint_ns = aNumber
    /\ res.config.checkpoint_id = aNumber
    /\ res.error = "Invalid thread_id"

\* C13: in getTuple, list, put and putWrites the address is validated before
\* the store is used: with an invalid address the call fails, having issued no
\* store request.
C13_ValidationBeforeStore ==
    /\ (res.op \in {"getTuple", "list", "put"} /\ FirstError(res.config) # "")
           => res.error # "" /\ res.requests = <<>>
    /\ (res.op = "putWrites" /\ FirstError(res.config) # "")
           => res.error # "" /\ pw.issued = <<>> /\ writes = pw.base

SizeError == "Item size has exceeded the maximum allowed size"

ItemOf(e) == putItem(e.config, e.checkpoint, e.metadata)

\* The last call was a put of an item above the ceiling, at a valid address
\* and with payloads of one type.
OversizedPut(r) ==
    /\ r.op = "put"
    /\ putError(r.config, r.checkpoint, r.metadata) = ""
    /\ calculateItemSize(putItem(r.config, r.checkpoint, r.metadata)) > MaxItemSize

\* C14: a put whose item exceeds the store's size ceiling fails with the size
\* error and leaves the checkpoints table as it was; the table holds the items
\* of the successful puts and none above the ceiling, and no getTuple returns
\* a checkpoint that no successful put saved.
C14_OversizedPut ==
    /\ [](OversizedPut(res) => res.error = SizeError)
    /\ [](checkpoints = {ItemOf(e) : e \in hist})
    /\ [](\A item \in checkpoints : calculateItemSize(item) <= MaxItemSize)
    /\ [](GotTuple => \E e \in hist : res.out[1].checkpoint = e.checkpoint)
    /\ [][OversizedPut(res') => checkpoints' = checkpoints]_vars

\* An oversized put failed on a table that holds an item exactly at the ceiling.
C14_Witness ==
    /\ OversizedPut(res)
    /\ res.error = SizeError
    /\ \E item \in checkpoints : calculateItemSize(item) = MaxItemSize

TypeError == "Failed to serialize checkpoint and metadata to the same type."

\* The last call was a put at a valid address whose checkpoint and metadata
\* serialize under different type tags.
MismatchedPut(r) ==
    /\ r.op = "put"
    /\ FirstError(r.config) = ""
    /\ dumpsTyped(r.checkpoint)[1] # dumpsTyped(r.metadata)[1]

\* C15: when the serializer gives the checkpoint and the metadata different
\* type tags, put fails with the type-mismatch error, having issued no store
\* request, and both tables stay as they were.
C15_TypeMismatch ==
    /\ [](MismatchedPut(res) => res.error = TypeError /\ res.requests = <<>>)
    /\ [][MismatchedPut(res') => checkpoints' = checkpoints /\ writes' = writes]_vars

\* A json checkpoint with bytes metadata was refused after a successful put.
C15_Witness ==
    /\ MismatchedPut(res)
    /\ res.error = TypeError
    /\ dumpsTyped(res.checkpoint)[1] = "json"
    /\ dumpsTyped(res.metadata)[1] = "bytes"
    /\ checkpoints # {}

\* The last call was a putWrites at a valid address without checkpoint_id.
PutWritesWithoutId ==
    /\ res.op = "putWrites"
    /\ FirstError(res.config) = ""
    /\ res.config.checkpoint_id = undefined

\* C16: putWrites at an address without checkpoint_id fails with 'Missing
\* checkpoint_id' and stores nothing, whatever the writes and the task id: no
\* batch is issued and the writes table is as the call found it.
C16_PutWritesNeedsId ==
    PutWritesWithoutId =>
        /\ res.error = "Missing checkpoint_id"
        /\ pw.status = "error"
        /\ pw.config = res.config
        /\ pw.issued = <<>>
        /\ writes = pw.base

\* A call with two writes failed so, on a table that holds an earlier write.
C16_Witness ==
    /\ PutWritesWithoutId
    /\ res.error = "Missing checkpoint_id"
    /\ pw.status = "error"
    /\ Len(pw.pendingWrites) = 2
    /\ pw.taskId = TaskB
    /\ writes # <<>>

NonEmptyString(v) == IsString(v) /\ Len(v) > 0

\* C22: every address the validation accepts has a non-empty string
\* thread_id: no getTuple, put or putWrites issues a store request for an
\* address whose thread_id is empty or no string.
C22_ThreadIdNonEmpty ==
    /\ ((res.op = "getTuple" \/ res.op = "put") /\ res.requests # <<>>)
           => NonEmptyString(res.config.thread_id)
    /\ (pw.status # "idle" /\ pw.issued # <<>>)
           => NonEmptyString(pw.config.thread_id)

\* The last call is one that validates its address, and the address is valid.
ValidatedCall ==
    /\ (res.op = "getTuple" \/ res.op = "put" \/ res.op = "putWrites")
    /\ FirstError(res.config) = ""

\* C23: on a valid address the validation returns the given thread_id, the
\* given checkpoint_ns or the empty string when it is absent, and the given
\* checkpoint_id as it is: an absent checkpoint_id stays absent, so getTuple
\* queries for the latest record instead of reading a key, and putWrites
\* reports the checkpoint_id missing.
C23_ValidatedAddress ==
    ValidatedCall =>
        /\ validateConfigurable(res.config).error = ""
        /\ validateConfigurable(res.config).thread_id = res.config.thread_id
        /\ validateConfigurable(res.config).checkpoint_ns =
               (IF res.config.checkpoint_ns = undefined THEN <<>>
                ELSE res.config.checkpoint_ns)
        /\ validateConfigurable(res.config).checkpoint_id = res.config.checkpoint_id
        /\ res.op = "getTuple" =>
               res.requests[1] = (IF res.config.checkpoint_id = undefined
                                  THEN "query" ELSE "get")
        /\ (res.op = "putWrites" /\ res.config.checkpoint_id = undefined) =>
               res.error = "Missing checkpoint_id"

\* A getTuple without checkpoint_ns and checkpoint_id queried for the latest
\* record and found one, stored under the empty namespace.
C23_Witness ==
    /\ GotTuple
    /\ res.config.checkpoint_ns = undefined
    /\ res.config.checkpoint_id = undefined
    /\ res.requests = <<"query", "query">>
    /\ res.out[1].config.checkpoint_ns = <<>>

CheckpointKeys(table) == {CheckpointKey(i) : i \in table}

WriteKeys(wtable) == {WriteKey(wtable[k]) : k \in 1..Len(wtable)}

\* C24: no getTuple, list, put or putWrites removes a stored item: every step
\* keeps the (thread_id, checkpoint_id) keys of the checkpoints table and the
\* (partition key, sort key) keys of the writes table, so both sets only grow.
C24_NeverDeletes ==
    [][/\ CheckpointKeys(checkpoints) \subseteq CheckpointKeys(checkpoints')
       /\ WriteKeys(writes) \subseteq WriteKeys(writes')]_vars

\* A putWrites of one write returned on a table that held two writes of the
\* same partition and a checkpoint: both keys are still there.
C24_Witness ==
    /\ pw.status = "done"
    /\ Len(pw.pendingWrites) = 1
    /\ Len(pw.base) = 2
    /\ Len(writes) = 2
    /\ WriteKeys(pw.base) = WriteKeys(writes)
    /\ checkpoints # {}

\* The tuple made of a checkpoint item alone.
TupleOfItem(i) ==
    [config |-> itemConfig(i),
     checkpoint |-> loadsTyped(i.type, i.checkpoint),
     metadata |-> loadsTyped(i.type, i.metadata),
     parentConfig |-> parentConfig(i)]

\* C29: list does not read the writes table: every tuple a list yields has no
\* pendingWrites and is made of one item of the checkpoints table alone, so the
\* result is the same whatever the writes table holds.
C29_ListIgnoresWrites ==
    (res.op = "list" /\ res.error = "") =>
        \A k \in 1..Len(res.out) :
            /\ "pendingWrites" \notin DOMAIN res.out[k]
            /\ \E i \in checkpoints : res.out[k] = TupleOfItem(i)

\* A list that yielded a checkpoint of which the writes table holds a write.
C29_Witness ==
    /\ res.op = "list"
    /\ res.error = ""
    /\ Len(res.out) = 1
    /\ \E k \in 1..Len(writes) :
           writes[k].thread_id_checkpoint_id_checkpoint_ns
               = getPartitionKey(res.out[1].config)

----------------------------------------------------------------------------
(* Claims checked under SpecPending *)

\* The triple of the record a getTuple found.
FoundTriple == <<res.out[1].config.thread_id, res.out[1].config.checkpoint_ns,
                 res.out[1].config.checkpoint_id>>

\* The triples the stored writes were written for, in table order.
StoredFor == [i \in 1..Len(writes) |-> loadsTyped(writes[i].type, writes[i].value).body[1]] \o <<>>

\* The triples the returned pending writes were written for.
ReturnedFor == [k \in 1..Len(res.out[1].pendingWrites) |->
                    res.out[1].pendingWrites[k][3].body[1]] \o <<>>

\* C17: the pending writes getTuple returns are exactly the writes stored for
\* the found record's own (thread_id, checkpoint_ns, checkpoint_id), also when
\* the caller gave no checkpoint_id: none written for another checkpoint,
\* namespace or thread is returned, and each one stored for the record is
\* returned once (no id holds the separator ':::').
C17_PendingWritesOfFound ==
    GotTuple =>
        /\ \A k \in 1..Len(ReturnedFor) : ReturnedFor[k] = FoundTriple
        /\ \A i \in 1..Len(writes) :
               StoredFor[i] = FoundTriple =>
                   Cardinality({k \in 1..Len(res.out[1].pendingWrites) :
                       res.out[1].pendingWrites[k]
                           = <<TaskT, writes[i].channel,
                               loadsTyped(writes[i].type, writes[i].value)>>}) = 1

\* C33: threads are isolated: what a getTuple on a thread returns comes from the
\* operations on that thread alone, so the record it finds is of the thread
\* asked for and every pending write it returns was written by a putWrites
\* addressed to that thread (leaving out the calls on other threads cannot
\* change the result).
C33_ThreadIsolation ==
    GotTuple =>
        /\ res.out[1].config.thread_id = res.config.thread_id
        /\ \A k \in 1..Len(ReturnedFor) : ReturnedFor[k][1] = res.config.thread_id

\* The stored write at position i of the writes table is among the pending
\* writes the last getTuple returned.
Returned(i) ==
    \E k \in 1..Len(res.out[1].pendingWrites) :
        res.out[1].pendingWrites[k]
            = <<TaskT, writes[i].channel, loadsTyped(writes[i].type, writes[i].value)>>

\* C36: of the writes stored by putWrites for the thread_id and checkpoint_id of
\* the record a getTuple found, the ones returned are exactly those written
\* under the record's own checkpoint_ns; those written under another namespace
\* stay in the table and are not returned.
C36_WritesOfOwnNamespace ==
    GotTuple =>
        \A i \in 1..Len(writes) :
            (/\ StoredFor[i][1] = FoundTriple[1]
             /\ StoredFor[i][3] = FoundTriple[3])
                => (Returned(i) <=> StoredFor[i][2] = FoundTriple[2])

\* A getTuple found the record of namespace "a" while the table holds a write
\* for it under namespace "a" and one under namespace "": it returned one.
C36_Witness ==
    /\ GotTuple
    /\ FoundTriple[1] = T1
    /\ FoundTriple[2] = NsA
    /\ Len(res.out[1].pendingWrites) = 1
    /\ \E i \in 1..Len(writes) :
           StoredFor[i][1] = T1 /\ StoredFor[i][2] = NsA /\ StoredFor[i][3] = FoundTriple[3]
    /\ \E i \in 1..Len(writes) :
           StoredFor[i][1] = T1 /\ StoredFor[i][2] = <<>> /\ StoredFor[i][3] = FoundTriple[3]

\* C39: each operation changes only its own table: a getTuple or list step
\* leaves both tables as they are; a put step leaves the writes table as it is
\* and, in the checkpoints table, every item but the one at (thread_id,
\* checkpoint.id); a putWrites step leaves the checkpoints table as it is.  So
\* the writes stored under a record's thread_id, checkpoint_ns and checkpoint_id
\* are returned with it also after the record was overwritten.
C39_FrameOfOperations ==
    /\ [][/\ (res'.op = "getTuple" \/ res'.op = "list")
                 => (checkpoints' = checkpoints /\ writes' = writes)
          /\ res'.op = "put"
                 => /\ writes' = writes
                    /\ \A i \in checkpoints \cup checkpoints' :
                           CheckpointKey(i) # <<res'.config.thread_id, res'.checkpoint.id>>
                               => (i \in checkpoints /\ i \in checkpoints')
          /\ res'.op = "putWrites" => checkpoints' = checkpoints]_vars
    /\ [](GotTuple =>
            \A i \in 1..Len(writes) : StoredFor[i] = FoundTriple => Returned(i))

\* A getTuple returned the second payload of a record put twice under one
\* namespace, with the pending write stored for that record.
C39_Witness ==
    /\ GotTuple
    /\ res.out[1].checkpoint.body = "v2"
    /\ Len(res.out[1].pendingWrites) = 1
    /\ ReturnedFor[1] = FoundTriple
    /\ \E e \in hist :
           /\ e.key = <<res.out[1].config.thread_id, res.out[1].config.checkpoint_id>>
           /\ e.replaced # {}
           /\ Cardinality(e.namespaces) = 1

----------------------------------------------------------------------------
(* Claims checked under SpecRace *)

\* The last call is a put that returned after a put to the same key was in
\* flight together with it.
RacedPut == res.op = "put" /\ "call" \in DOMAIN res /\ res.overlapped

\* C18: when puts for the same (thread_id, checkpoint_id) are in flight
\* together, every call succeeds and returns its own address, and the record
\* stored under the key is the whole item of one call, the one the store
\* applied last: every field of it is that call's.
C18_LastWriterWins ==
    /\ RacedPut =>
           /\ res.error = ""
           /\ res.out = AddressOf(putItem(res.config, res.checkpoint, res.metadata))
           /\ putItem(res.config, res.checkpoint, res.metadata) \in checkpoints
    /\ checkpoints = {ItemOf(e) : e \in hist}
    /\ \A i \in checkpoints, j \in checkpoints :
           CheckpointKey(i) = CheckpointKey(j) => i = j

\* Three puts of one key were in flight together and all returned; the one
\* begun first was applied last, and the record is its item, which replaced
\* those of the two others.
C18_Witness ==
    /\ RacedPut
    /\ res.call = 1
    /\ res.error = ""
    /\ inflight = {}
    /\ nops.puts = 3
    /\ \E e \in hist :
           /\ e.key = <<res.config.thread_id, res.checkpoint.id>>
           /\ e.checkpoint = res.checkpoint
           /\ Cardinality(e.replaced) = 2
    /\ Cardinality(checkpoints) = 1

----------------------------------------------------------------------------
(* Claims checked under SpecCodec *)

\* s holds the separator ':::'.
HoldsSeparator(s) == \E i \in 1..Len(s) : StartsAt(s, separator, i)

SeparatorFree(w) ==
    /\ ~HoldsSeparator(w.thread_id)
    /\ ~HoldsSeparator(w.checkpoint_id)
    /\ ~HoldsSeparator(w.checkpoint_ns)

\* C20: for thread_id, checkpoint_id, checkpoint_ns and task_id that do not
\* hold the separator ':::' and idx >= 0, fromDynamoDBItem(toDynamoDBItem(w))
\* has the thread_id, checkpoint_id, checkpoint_ns, task_id and idx of w, and
\* a triple different from w's has a partition key different from w's.
C20_CodecRoundTrip ==
    /\ (/\ res.op \in {"fromDynamoDBItem", "getPartitionKey"}
        /\ SeparatorFree(res.write) /\ ~HoldsSeparator(res.write.task_id)
        /\ res.write.idx >= 0)
           => /\ res.back.thread_id = res.write.thread_id
              /\ res.back.checkpoint_id = res.write.checkpoint_id
              /\ res.back.checkpoint_ns = res.write.checkpoint_ns
              /\ res.back.task_id = res.write.task_id
              /\ res.back.idx = res.write.idx
    /\ (/\ res.op = "getPartitionKey"
        /\ SeparatorFree(res.write) /\ SeparatorFree(res.other)
        /\ res.other # itemConfig(res.write))
           => res.otherKey # res.item.thread_id_checkpoint_id_checkpoint_ns

----------------------------------------------------------------------------
(* Claims checked under SpecDecode *)

\* s is a base-10 integer: one digit or more, nothing else.
IsInteger(s) == s # undefined /\ Len(s) > 0 /\ \A i \in 1..Len(s) : IsDigit(s[i])

\* The partition key has fewer than 3 parts, or the idx part of the sort key
\* is no base-10 integer.
Malformed(item) ==
    \/ Len(Split(item.thread_id_checkpoint_id_checkpoint_ns, separator)) < 3
    \/ ~IsInteger(At(Split(item.task_id_idx, separator), 2))

\* C21: decoding a stored write whose partition key splits into fewer than 3
\* parts, or whose idx part is no base-10 integer, fails with a MalformedKey
\* error and produces no Write.
C21_MalformedKeyFails ==
    (res.op = "fromDynamoDBItem" /\ "error" \in DOMAIN res /\ Malformed(res.item))
        => res.error = "MalformedKey"

====
